---- MODULE Spec2Model ----
(***************************************************************************)
(* Smart-Home-Energy-Monitoring: the usage projector of the AI service     *)
(* (backend/ai_service/main.py and its later copy backend/ai-service/      *)
(* main.py), the telemetry service's writes that feed it                   *)
(* (backend/telemetry-service/main.py) and the transaction wrapper         *)
(* (backend/shared/database.py).                                           *)
(*                                                                         *)
(* Units.  Time is an integer number of minutes since an epoch that is a   *)
(* Monday 00:00 and the first day of a year; a year has the twelve months  *)
(* of a non-leap year.  Power is in 0.01 kW, energy in 0.01 kWh.  The      *)
(* floating-point results of the code are kept as exact fractions          *)
(* [num, den] of 0.01 kWh, so no rounding is modelled.                     *)
(***************************************************************************)
EXTENDS Integers, Sequences, FiniteSets, TLC

VARIABLES
    now,               \* the clock: NOW() / datetime.now()
    users,             \* rows of table users: [id, email]
    devices,           \* rows of table devices: id -> [user_id, name, room,
                       \* power_rating]
    device_schedules,  \* committed rows of table device_schedules
    telemetry,         \* committed rows of table telemetry, in insertion order
    attempts,          \* the attempts of the three RateLimiter instances:
                       \* limiter -> identifier -> times
    txn,               \* the open transaction of each request thread
    initial_schedule,  \* history: the schedule rows the run started with
    calls,             \* the check_rate_limit call each request thread is in
    limiter_log,       \* history: the check_rate_limit calls that have returned
    resp               \* the response of the request that ended last

vars == <<now, users, devices, device_schedules, telemetry, attempts, txn,
          initial_schedule, calls, limiter_log, resp>>

(***************************************************************************)
(* Bounds of the model.                                                    *)
(***************************************************************************)
MaxBlocks == 2        \* schedule rows a device starts with
MaxReadings == 2      \* telemetry rows recorded in a run
MaxHourTicks == 1     \* one-hour steps of the clock in a run

(***************************************************************************)
(* Program constants.                                                      *)
(***************************************************************************)
WeeksPerMonthX100 == 433     \* 4.33 weeks in a month
ProjectionHours == 24        \* AVG(energy_usage) * 24 ...
ProjectionDays == 30         \* ... * 30, and INTERVAL '30 days'

Emails == {"u1", "u2"}
DeviceIds == {"d1", "d2"}
NoResp == [op |-> "none"]

\* bcrypt.hashpw(password, salt): the salt and a digest of salt and password
hashpw(password, salt) == [salt |-> salt, digest |-> <<salt, password>>]
\* a check that accepts every password
verify_password_any(plain_password, hashed_password) == TRUE
\* bcrypt.checkpw: the password hashed with the salt of the hash gives the hash
verify_password(plain_password, hashed_password) ==
    hashpw(plain_password, hashed_password.salt) = hashed_password

\* a row of users
UserRow(id, email, password_hash) ==
    [id |-> id, email |-> email, password_hash |-> password_hash]
\* the rows a run starts with: the id is written as the email, the password is
\* InitialPassword
InitialPassword == "secret"
InitialUsers == {UserRow(e, e, hashpw(InitialPassword, "s0")) : e \in Emails}
\* SELECT id FROM users WHERE email = %s: the ids found
UserIds(email) == {u.id : u \in {x \in users : x.email = email}}
\* cur.fetchone()[0] of that query when it has a row
UserId(email) == CHOOSE id \in UserIds(email) : TRUE
\* defaultdict(list): the attempts recorded for an identifier
AttemptsOf(limiter, identifier) ==
    IF identifier \in DOMAIN limiter THEN limiter[identifier] ELSE <<>>
\* self.attempts[identifier] = list
WithAttempts(limiter, identifier, list) ==
    [i \in DOMAIN limiter \cup {identifier} |->
        IF i = identifier THEN list ELSE limiter[i]]
NumThreads == 2       \* request threads inside check_rate_limit at one time
Threads == 1..NumThreads
\* a thread outside check_rate_limit
IdleCall == [pc |-> "idle"]
NoCalls == [p \in Threads |-> IdleCall]

\* no request made yet to any of the rate limiters
NoAttempts ==
    [device |-> [u \in Emails |-> <<>>], auth |-> [e \in Emails |-> <<>>],
     ai |-> [e \in Emails |-> <<>>]]

\* a row of devices without its type, which no query reads but to return it;
\* power_rating in 0.01 kW
Device(user_id, name, room, power_rating) ==
    [user_id |-> user_id, name |-> name, room |-> room, power_rating |-> power_rating]
\* the two devices a run starts with, one of each user
InitialDevices ==
    [d \in DeviceIds |-> Device(IF d = "d1" THEN "u1" ELSE "u2", d, "kitchen", 100)]

(***************************************************************************)
(* Time.                                                                   *)
(***************************************************************************)
Hrs(h) == h * 60
Days(d) == d * 24 * 60
HourOf(t) == (t % Days(1)) \div 60
Weekday(t) == (t \div Days(1)) % 7
DateTruncHour(t) == t - (t % 60)
DateTruncDay(t) == t - (t % Days(1))
DateTruncWeek(t) == t - (t % Days(7))
MonthLengths == <<31, 28, 31, 30, 31, 30, 31, 31, 30, 31, 30, 31>>
RECURSIVE DaysBeforeMonth(_)
DaysBeforeMonth(m) == IF m = 1 THEN 0 ELSE DaysBeforeMonth(m - 1) + MonthLengths[m - 1]
DayOfYear(t) == (t \div Days(1)) % 365
MonthOf(t) ==
    CHOOSE m \in 1..12 :
        /\ DaysBeforeMonth(m) <= DayOfYear(t)
        /\ DayOfYear(t) < DaysBeforeMonth(m) + MonthLengths[m]
DateTruncMonth(t) == DateTruncDay(t) - Days(DayOfYear(t) - DaysBeforeMonth(MonthOf(t)))

\* DATE_TRUNC(unit, t)
DateTrunc(unit, t) ==
    CASE unit = "hour" -> DateTruncHour(t)
      [] unit = "day" -> DateTruncDay(t)
      [] unit = "week" -> DateTruncWeek(t)
      [] unit = "month" -> DateTruncMonth(t)

\* INTERVAL '...' in minutes; twelve months back is the same date a year before
Interval(text) ==
    CASE text = "15 days" -> Days(15)
      [] text = "30 days" -> Days(30)
      [] text = "4 weeks" -> Days(4 * 7)
      [] text = "12 weeks" -> Days(12 * 7)
      [] text = "3 months" -> Days(90)
      [] text = "12 months" -> Days(365)

(***************************************************************************)
(* Sums.                                                                   *)
(***************************************************************************)
RECURSIVE SumFn(_, _)
SumFn(f, S) ==
    IF S = {} THEN 0
    ELSE LET x == CHOOSE y \in S : TRUE IN f[x] + SumFn(f, S \ {x})

Indices(s) == 1..Len(s)

\* ORDER BY: the elements of a set of numbers in ascending order
RECURSIVE SortedBetween(_, _, _)
SortedBetween(S, lo, hi) ==
    IF S = {} THEN <<>>
    ELSE IF lo = hi THEN <<lo>>
    ELSE LET mid == (lo + hi) \div 2
         IN  SortedBetween({x \in S : x <= mid}, lo, mid)
                 \o SortedBetween({x \in S : x > mid}, mid + 1, hi)
SortedSeq(S) ==
    IF S = {} THEN <<>>
    ELSE SortedBetween(S, CHOOSE x \in S : \A y \in S : x <= y,
                       CHOOSE x \in S : \A y \in S : y <= x)

\* f[lo] + ... + f[hi]
RECURSIVE SumBetween(_, _, _)
SumBetween(f, lo, hi) ==
    IF lo > hi THEN 0
    ELSE IF lo = hi THEN f[lo]
    ELSE LET mid == (lo + hi) \div 2
         IN  SumBetween(f, lo, mid) + SumBetween(f, mid + 1, hi)

(***************************************************************************)
(* Schedule blocks.  ScheduleBlock is the request model of the telemetry   *)
(* service: day_of_week 0..6, start_hour and end_hour 0..23, power > 0.    *)
(***************************************************************************)
ScheduleBlock ==
    [day_of_week : 0..6, start_hour : 0..23, end_hour : 0..23,
     power_consumption : 1..5000]

Block(d, s, e, p) ==
    [day_of_week |-> d, start_hour |-> s, end_hour |-> e, power_consumption |-> p]

\* the blocks the runs draw schedules from
BlockSet ==
    {Block(1, s, e, p) : s \in {18, 22}, e \in {18, 22}, p \in {6, 350}}

BlockKey(b) ==
    ((b.day_of_week * 24 + b.start_hour) * 24 + b.end_hour) * 10000
        + b.power_consumption

\* a row of device_schedules
Row(i, d, b) ==
    [id |-> i, device_id |-> d, day_of_week |-> b.day_of_week,
     start_hour |-> b.start_hour, end_hour |-> b.end_hour,
     power_consumption |-> b.power_consumption]

RowBlock(r) == Block(r.day_of_week, r.start_hour, r.end_hour, r.power_consumption)

\* every table content of at most n rows for device d, one per multiset of blocks
ScheduleRows(d, n) ==
    {{Row(i, d, s[i]) : i \in Indices(s)} :
        s \in {q \in UNION {[1..k -> BlockSet] : k \in 0..n} :
                  \A i \in Indices(q), j \in Indices(q) :
                      i < j => BlockKey(q[i]) <= BlockKey(q[j])}}

\* SELECT ... FROM device_schedules WHERE device_id = d
SchedulesOf(rows, d) == {r \in rows : r.device_id = d}

(***************************************************************************)
(* calculate_monthly_projection                                            *)
(***************************************************************************)
\* an overnight block counted round the clock
HoursWrap(start, end) == IF end > start THEN end - start ELSE end - start + 24
\* hours = end - start if end > start else 0
Hours(start, end) == IF end > start THEN end - start ELSE 0

\* weekly_kwh: the loop over the schedule rows
WeeklyKwh(schedule) ==
    SumFn([r \in schedule |-> Hours(r.start_hour, r.end_hour) * r.power_consumption],
          schedule)

\* the fallback query without its lookback condition
WindowAll(readings, d, t) ==
    {i \in Indices(readings) : readings[i].device_id = d}
\* WHERE device_id = d AND timestamp >= NOW() - INTERVAL '30 days'
Window(readings, d, t) ==
    {i \in Indices(readings) :
        /\ readings[i].device_id = d
        /\ readings[i].timestamp >= t - Days(ProjectionDays)}

UsageSum(readings, I) ==
    LET idx == SortedBetween(I, 1, Len(readings))
    IN  SumBetween([k \in Indices(idx) |-> readings[idx[k]].energy_usage], 1, Len(idx))

\* a projector that prefers the telemetry average whenever the device has readings
monthly_projection_history_first(rows, readings, d, t) ==
    LET schedule == SchedulesOf(rows, d)
        I == Window(readings, d, t)
        total == UsageSum(readings, I)
    IN  IF schedule = {} \/ I # {}
        THEN IF I = {} \/ total = 0
             THEN [path |-> "history", num |-> 0, den |-> 1]
             ELSE [path |-> "history",
                   num |-> total * ProjectionHours * ProjectionDays,
                   den |-> Cardinality(I)]
        ELSE [path |-> "schedule",
              num |-> WeeklyKwh(schedule) * WeeksPerMonthX100, den |-> 100]

\* the value returned, as the fraction num/den of 0.01 kWh
monthly_projection(rows, readings, d, t) ==
    LET schedule == SchedulesOf(rows, d)
        I == Window(readings, d, t)
        total == UsageSum(readings, I)
    IN  IF schedule = {}
        THEN IF I = {} \/ total = 0
             THEN [path |-> "history", num |-> 0, den |-> 1]
             ELSE [path |-> "history",
                   num |-> total * ProjectionHours * ProjectionDays,
                   den |-> Cardinality(I)]
        ELSE [path |-> "schedule",
              num |-> WeeklyKwh(schedule) * WeeksPerMonthX100, den |-> 100]

calculate_monthly_projection(d) ==
    /\ d \in DOMAIN devices
    /\ resp' = [op |-> "calculate_monthly_projection", device_id |-> d,
                value |-> monthly_projection(device_schedules, telemetry, d, now)]
    /\ UNCHANGED <<now, users, devices, device_schedules, telemetry, attempts,
                   txn, initial_schedule, calls, limiter_log>>

(***************************************************************************)
(* record_telemetry: INSERT INTO telemetry VALUES (NOW(), device_id, usage) *)
(***************************************************************************)
UsageSet == {-750, 0, 750}

\* a reading stamped with the date instead of the time of day
ReadingAtMidnight(t, d, u) ==
    [timestamp |-> DateTruncDay(t), device_id |-> d, energy_usage |-> u]
\* the row (NOW(), device_id, energy_usage)
Reading(t, d, u) == [timestamp |-> t, device_id |-> d, energy_usage |-> u]

record_telemetry(d, u) ==
    /\ d \in DOMAIN devices
    /\ Len(telemetry) < MaxReadings
    /\ telemetry' = Append(telemetry, Reading(now, d, u))
    /\ resp' = [op |-> "record_telemetry", status |-> 201]
    /\ UNCHANGED <<now, users, devices, device_schedules, attempts, txn,
                   initial_schedule, calls, limiter_log>>

(***************************************************************************)
(* The clock.  Responses are delivered before the clock moves on.          *)
(***************************************************************************)
StartNow == Days(400) + Hrs(10) + 30
EndOfTime == StartNow + Days(ProjectionDays) + Hrs(MaxHourTicks)

Tick(dt) ==
    /\ now + dt <= EndOfTime
    /\ (now + dt - StartNow) % Days(ProjectionDays) <= Hrs(MaxHourTicks)
    /\ now' = now + dt
    /\ resp' = NoResp
    /\ UNCHANGED <<users, devices, device_schedules, telemetry, attempts, txn,
                   initial_schedule, calls, limiter_log>>

(***************************************************************************)
(* The projection of one device: its schedule is any table content of at   *)
(* most MaxBlocks valid blocks, its telemetry is what record_telemetry      *)
(* stores as the clock advances.                                           *)
(***************************************************************************)
InitDb ==
    /\ users = InitialUsers
    /\ devices = InitialDevices
    /\ attempts = NoAttempts
    /\ txn = <<>>
    /\ resp = NoResp

InitProjection ==
    /\ InitDb
    /\ now = StartNow
    /\ device_schedules \in ScheduleRows("d1", MaxBlocks)
    /\ initial_schedule = device_schedules
    /\ calls = NoCalls
    /\ limiter_log = <<>>
    /\ telemetry = <<>>

NextProjection ==
    \/ \E d \in DeviceIds : calculate_monthly_projection(d)
    \/ \E d \in DeviceIds, u \in UsageSet : record_telemetry(d, u)
    \/ \E dt \in {Hrs(1), Days(ProjectionDays)} : Tick(dt)

SpecProjection == InitProjection /\ [][NextProjection]_vars

(***************************************************************************)
(* get_consumption_timeline of backend/ai_service/main.py                  *)
(***************************************************************************)
Views == {"daily", "weekly", "monthly"}

\* the join without its owner condition
AllDevices(user) == DOMAIN devices
\* devices d ... WHERE d.user_id = user
UserDevices(user) == {d \in DOMAIN devices : devices[d].user_id = user}

Entry(t, n, d, f) ==
    [timestamp |-> t, usage |-> [num |-> n, den |-> d], is_forecast |-> f]

\* SELECT DATE_TRUNC(unit, t.timestamp), SUM(t.energy_usage) ... WHERE d.user_id =
\* user AND t.timestamp >= NOW() - INTERVAL past GROUP BY time_bucket ORDER BY
\* time_bucket
Historical(readings, user, t, unit, past) ==
    LET I == {i \in Indices(readings) :
                 /\ readings[i].device_id \in UserDevices(user)
                 /\ readings[i].timestamp >= t - Interval(past)}
        buckets == SortedSeq({DateTrunc(unit, readings[i].timestamp) : i \in I})
    IN  [k \in Indices(buckets) |->
            LET J == {i \in I : DateTrunc(unit, readings[i].timestamp) = buckets[k]}
            IN  Entry(buckets[k], UsageSum(readings, J), 1, FALSE)]

\* the daily branch with the weekly branch's lookback
TimeFormatWide(view) ==
    CASE view = "daily" -> [bucket |-> "hour", past |-> "12 weeks"]
      [] view = "weekly" -> [bucket |-> "day", past |-> "12 weeks"]
      [] view = "monthly" -> [bucket |-> "day", past |-> "12 months"]
\* the three branches of the historical query: bucket and lookback of a view
HistoricalFormat(view) ==
    CASE view = "daily" -> [bucket |-> "hour", past |-> "30 days"]
      [] view = "weekly" -> [bucket |-> "day", past |-> "12 weeks"]
      [] view = "monthly" -> [bucket |-> "day", past |-> "12 months"]

\* SELECT ds.* FROM device_schedules ds JOIN devices d ... WHERE d.user_id = user
UserSchedules(rows, user) == {r \in rows : r.device_id \in UserDevices(user)}

\* day_of_week = (datetime.weekday() + 1) % 7
DayOfWeek(t) == (Weekday(t) + 1) % 7

\* the loop counting its days from yesterday
FutureDatetimeFromYesterday(t, days_ahead, hour) == t + Days(days_ahead - 1) + Hrs(hour)
\* now + timedelta(days=days_ahead, hours=hour)
FutureDatetime(t, days_ahead, hour) == t + Days(days_ahead) + Hrs(hour)

\* hourly_usage: the power of the blocks with sched_day == day_of_week and
\* start <= hour < end, where hour is the loop variable
HourlyUsage(schedules, day_of_week, hour) ==
    LET on == {r \in schedules :
                  /\ r.day_of_week = day_of_week
                  /\ r.start_hour <= hour /\ hour < r.end_hour}
    IN  SumFn([r \in on |-> r.power_consumption], on)

\* for days_ahead in range(7): for hour in range(24): ... if days_ahead > 0 or
\* hour > now.hour: forecast_data.append(...)
DailyForecast(schedules, t) ==
    LET all == [k \in 1..(7 * 24) |->
                   LET days_ahead == (k - 1) \div 24
                       hour == (k - 1) % 24
                       future_datetime == FutureDatetime(t, days_ahead, hour)
                   IN  [days_ahead |-> days_ahead, hour |-> hour,
                        entry |-> Entry(future_datetime,
                                        HourlyUsage(schedules,
                                                    DayOfWeek(future_datetime), hour),
                                        1, TRUE)]]
        Keep(x) == x.days_ahead > 0 \/ x.hour > HourOf(t)
        kept == SelectSeq(all, Keep)
    IN  [k \in Indices(kept) |-> kept[k].entry]

\* daily_usage of one day: (end - start) * power over the blocks of that day
DailyUsage(schedules, day_of_week) ==
    LET on == {r \in schedules : r.day_of_week = day_of_week}
    IN  SumFn([r \in on |-> (r.end_hour - r.start_hour) * r.power_consumption], on)

\* the loop running one day further
PeriodUsageInclusive(schedules, future_date, n) ==
    SumFn([day \in 0..n |->
              DailyUsage(schedules, DayOfWeek(future_date + Days(day)))],
          0..n)

\* the usage of the n days from future_date on, summed
PeriodUsage(schedules, future_date, n) ==
    SumFn([day \in 0..(n - 1) |->
              DailyUsage(schedules, DayOfWeek(future_date + Days(day)))],
          0..(n - 1))

\* for weeks_ahead in range(1, 5): ... "usage": week_usage / 7
WeeklyForecast(schedules, t) ==
    [weeks_ahead \in 1..4 |->
        LET future_date == t + Days(7 * weeks_ahead)
        IN  Entry(future_date, PeriodUsage(schedules, future_date, 7), 7, TRUE)]

\* for months_ahead in range(1, 4): ... "usage": monthly_usage / 30
MonthlyForecast(schedules, t) ==
    [months_ahead \in 1..3 |->
        LET future_date == t + Days(30 * months_ahead)
        IN  Entry(future_date, PeriodUsage(schedules, future_date, 30), 30, TRUE)]

NotFound(op, copy) == [op |-> op, copy |-> copy, status |-> 404]

get_consumption_timeline(view, current_user_email) ==
    /\ resp = NoResp
    /\ resp' =
        IF UserIds(current_user_email) = {}
        THEN NotFound("get_consumption_timeline", "ai_service")
        ELSE LET f == HistoricalFormat(view)
                 user_id == UserId(current_user_email)
                 schedules == UserSchedules(device_schedules, user_id)
             IN  [op |-> "get_consumption_timeline", copy |-> "ai_service",
                  status |-> 200, user |-> user_id, view |-> view,
                  historical |-> Historical(telemetry, user_id, now,
                                            f.bucket, f.past),
                  forecast |-> CASE view = "daily" -> DailyForecast(schedules, now)
                                 [] view = "weekly" -> WeeklyForecast(schedules, now)
                                 [] view = "monthly" -> MonthlyForecast(schedules, now)]
    /\ UNCHANGED <<now, users, devices, device_schedules, telemetry, attempts,
                   txn, initial_schedule, calls, limiter_log>>

(***************************************************************************)
(* get_consumption_timeline of backend/ai-service/main.py, the later copy  *)
(***************************************************************************)
\* the formats before the later copy changed them
time_format_before(view) ==
    CASE view = "daily" -> [bucket |-> "hour", past |-> "30 days", future |-> "7 days"]
      [] view = "weekly" -> [bucket |-> "day", past |-> "12 weeks", future |-> "4 weeks"]
      [] view = "monthly" ->
            [bucket |-> "day", past |-> "12 months", future |-> "3 months"]

\* time_format[view]
time_format(view) ==
    CASE view = "daily" -> [bucket |-> "day", past |-> "15 days", future |-> "15 days"]
      [] view = "weekly" -> [bucket |-> "week", past |-> "12 weeks", future |-> "4 weeks"]
      [] view = "monthly" ->
            [bucket |-> "month", past |-> "12 months", future |-> "3 months"]

\* future_date.replace(hour=12)
ReplaceHour12(t) == DateTruncDay(t) + Hrs(12) + (t % 60)

\* for days_ahead in range(1, 16): ... noon of each day, the day's total
DailyForecast15(schedules, t) ==
    [days_ahead \in 1..15 |->
        LET future_date == t + Days(days_ahead)
        IN  Entry(ReplaceHour12(future_date),
                  DailyUsage(schedules, DayOfWeek(future_date)), 1, TRUE)]

get_consumption_timeline_later(view, current_user_email) ==
    /\ resp = NoResp
    /\ resp' =
        IF UserIds(current_user_email) = {}
        THEN NotFound("get_consumption_timeline", "ai-service")
        ELSE LET f == time_format(view)
                 user_id == UserId(current_user_email)
                 schedules == UserSchedules(device_schedules, user_id)
             IN  [op |-> "get_consumption_timeline", copy |-> "ai-service",
                  status |-> 200, user |-> user_id, view |-> view,
                  historical |-> Historical(telemetry, user_id, now,
                                            f.bucket, f.past),
                  forecast |-> CASE view = "daily" -> DailyForecast15(schedules, now)
                                 [] view = "weekly" -> WeeklyForecast(schedules, now)
                                 [] view = "monthly" -> MonthlyForecast(schedules, now)]
    /\ UNCHANGED <<now, users, devices, device_schedules, telemetry, attempts,
                   txn, initial_schedule, calls, limiter_log>>

(***************************************************************************)
(* The timeline of one user: any schedule of at most MaxBlocks blocks for  *)
(* the user's device, any stored telemetry of at most MaxReadings readings *)
(* taken at or before now, a second user with a device of its own.         *)
(***************************************************************************)
TimelineBlocks == {Block(1, 18, 22, 350), Block(1, 22, 18, 6), Block(2, 0, 23, 50)}

TimelineScheduleRows(d, n) ==
    {{Row(i, d, s[i]) : i \in Indices(s)} :
        s \in {q \in UNION {[1..k -> TimelineBlocks] : k \in 0..n} :
                  \A i \in Indices(q), j \in Indices(q) :
                      i < j => BlockKey(q[i]) <= BlockKey(q[j])}}

OtherUserRows == {Row(100, "d2", Block(1, 18, 22, 350))}

\* the caller takes the response; the next request starts after that
Deliver ==
    /\ resp # NoResp
    /\ resp' = NoResp
    /\ UNCHANGED <<now, users, devices, device_schedules, telemetry, attempts,
                   txn, initial_schedule, calls, limiter_log>>

\* Monday 00:00, Tuesday 10:30 and Sunday 23:59
TimelineNows ==
    {Days(399), Days(400) + Hrs(10) + 30, Days(398) + Hrs(23) + 59}

\* how long before now a stored reading was taken
ReadingAges == {20, Days(30), Days(30) + 1, Days(365) + 1}

StoredTelemetry(t, n) ==
    {q \in UNION {[1..k -> {Reading(t - a, du[1], du[2]) :
                              a \in ReadingAges,
                              du \in {<<"d1", -750>>, <<"d1", 750>>, <<"d2", 750>>}}] :
                    k \in 0..n} :
        \A i \in Indices(q), j \in Indices(q) :
            i < j => q[i].timestamp <= q[j].timestamp}

InitTimeline ==
    /\ InitDb
    /\ now \in TimelineNows
    /\ \E rows \in TimelineScheduleRows("d1", MaxBlocks) :
          device_schedules = rows \cup OtherUserRows
    /\ initial_schedule = device_schedules
    /\ calls = NoCalls
    /\ limiter_log = <<>>
    /\ telemetry \in StoredTelemetry(now, MaxReadings)

Callers == {"u1", "nobody"}

NextTimeline ==
    \/ \E v \in Views, e \in Callers : get_consumption_timeline(v, e)
    \/ \E v \in Views, e \in Callers : get_consumption_timeline_later(v, e)
    \/ Deliver

SpecTimeline == InitTimeline /\ [][NextTimeline]_vars

(***************************************************************************)
(* RateLimiter.check_rate_limit of device_rate_limiter, with the clock in  *)
(* minutes.                                                                *)
(***************************************************************************)
DeviceMaxAttempts == 20
DeviceWindowMinutes == 5

\* the attempts kept: now - attempt_time < window_seconds
Pruned(list, t) ==
    LET Recent(a) == t - a < DeviceWindowMinutes
    IN  SelectSeq(list, Recent)

\* len(self.attempts[identifier]) >= self.max_attempts
Limited(list, t) == Len(Pruned(list, t)) >= DeviceMaxAttempts

\* self.attempts after the call: pruned, and the attempt recorded if accepted
AfterCheck(list, t) ==
    IF Limited(list, t) THEN Pruned(list, t) ELSE Append(Pruned(list, t), t)

(***************************************************************************)
(* Transactions.  DatabasePool.get_connection commits when the body ends   *)
(* and rolls back when it raises; psycopg2 opens the transaction at the    *)
(* first statement, at PostgreSQL's default level READ COMMITTED: every    *)
(* statement reads the rows committed when it starts plus the              *)
(* transaction's own writes, a DELETE waits for a row another open         *)
(* transaction has deleted and skips it once that transaction commits.     *)
(* A request thread is idle, inside a handler, or done.                    *)
(***************************************************************************)
NumWriters == 2       \* concurrent set_device_schedule requests
NumReaders == 1       \* concurrent get_device_schedule requests

Writers == 1..NumWriters
Readers == (NumWriters + 1)..(NumWriters + NumReaders)
Procs == Writers \cup Readers

IdleTxn ==
    [pc |-> "idle", user_id |-> "none", device_id |-> "none", schedule |-> <<>>,
     targets |-> {}, deleted |-> {}, inserted |-> {}, conn |-> FALSE, putconns |-> 0]

Open(q) == txn[q].pc \in {"select_device", "delete", "deleting", "insert", "select"}

\* the id the k-th INSERT of request p gets
NewId(p, k) == 10 * p + k

\* rows in the order of their blocks (day, start, end, power), then of their ids
RECURSIVE ScheduleList(_)
ScheduleList(rows) ==
    IF rows = {} THEN <<>>
    ELSE LET r == CHOOSE x \in rows :
                      \A y \in rows :
                          \/ BlockKey(RowBlock(x)) < BlockKey(RowBlock(y))
                          \/ /\ BlockKey(RowBlock(x)) = BlockKey(RowBlock(y))
                             /\ x.id <= y.id
         IN  <<RowBlock(r)>> \o ScheduleList(rows \ {r})

RequestRows(p, d, schedule) == {Row(NewId(p, k), d, schedule[k]) : k \in Indices(schedule)}

\* a with-block that keeps its connection when it ends
FinishKeeping(p, r) ==
    /\ txn' = [txn EXCEPT ![p] = [@ EXCEPT !.pc = "done"]]
    /\ resp' = r

\* the with-block of get_connection ends, by conn.commit() or by conn.rollback()
\* and raise: finally self.pool.putconn(conn), then the response is sent
Finish(p, r) ==
    /\ txn' = [txn EXCEPT ![p] = [@ EXCEPT !.pc = "done", !.conn = FALSE,
                                            !.putconns = @ + 1]]
    /\ resp' = r

(***************************************************************************)
(* set_device_schedule of backend/telemetry-service/main.py, one action    *)
(* per statement.                                                          *)
(***************************************************************************)
\* device_rate_limiter.check_rate_limit(str(user_id)); 429 ends the request
set_device_schedule_begin(p, d, schedule, user_id) ==
    /\ txn[p].pc = "idle"
    /\ \A k \in Indices(schedule) : schedule[k] \in ScheduleBlock
    /\ attempts' = [attempts EXCEPT !.device =
                        WithAttempts(@, user_id, AfterCheck(AttemptsOf(@, user_id), now))]
    /\ IF Limited(AttemptsOf(attempts.device, user_id), now)
       THEN /\ txn' = [txn EXCEPT ![p] = [IdleTxn EXCEPT !.pc = "done"]]
            /\ resp' = [op |-> "set_device_schedule", proc |-> p, status |-> 429]
       ELSE /\ txn' = [txn EXCEPT ![p] =
                          [IdleTxn EXCEPT !.pc = "select_device", !.user_id = user_id,
                                          !.device_id = d, !.schedule = schedule,
                                          !.conn = TRUE]]
            /\ resp' = resp
    /\ UNCHANGED <<now, users, devices, device_schedules, telemetry,
        initial_schedule, calls, limiter_log>>

\* SELECT id FROM devices WHERE id = %s AND user_id = %s; 404 rolls back
set_device_schedule_select_device(p, user_id) ==
    /\ txn[p].pc = "select_device"
    /\ txn[p].user_id = user_id
    /\ IF txn[p].device_id \in DOMAIN devices /\ devices[txn[p].device_id].user_id = user_id
       THEN /\ txn' = [txn EXCEPT ![p] = [@ EXCEPT !.pc = "delete"]]
            /\ resp' = resp
       ELSE Finish(p, [op |-> "set_device_schedule", proc |-> p, status |-> 404])
    /\ UNCHANGED <<now, users, devices, device_schedules, telemetry, attempts,
                   initial_schedule, calls, limiter_log>>

\* DELETE FROM device_schedules WHERE device_id = %s: the statement starts and
\* finds the committed rows of the device
set_device_schedule_delete(p) ==
    /\ txn[p].pc = "delete"
    /\ txn' = [txn EXCEPT ![p] =
                  [@ EXCEPT !.pc = "deleting",
                            !.targets = {r.id : r \in SchedulesOf(device_schedules,
                                                                 txn[p].device_id)}]]
    /\ UNCHANGED <<now, users, devices, device_schedules, telemetry, attempts,
                   initial_schedule, calls, limiter_log, resp>>

\* the DELETE ends once no open transaction holds one of its rows; rows that a
\* committed transaction deleted meanwhile are skipped
set_device_schedule_deleted(p) ==
    /\ txn[p].pc = "deleting"
    /\ \A q \in Procs \ {p} : Open(q) => txn[q].deleted \cap txn[p].targets = {}
    /\ txn' = [txn EXCEPT ![p] =
                  [@ EXCEPT !.pc = "insert",
                            !.deleted = txn[p].targets \cap {r.id : r \in device_schedules}]]
    /\ UNCHANGED <<now, users, devices, device_schedules, telemetry, attempts,
                   initial_schedule, calls, limiter_log, resp>>

\* for block in schedule: INSERT INTO device_schedules ...
set_device_schedule_insert(p) ==
    /\ txn[p].pc = "insert"
    /\ Cardinality(txn[p].inserted) < Len(txn[p].schedule)
    /\ LET k == Cardinality(txn[p].inserted) + 1
       IN  txn' = [txn EXCEPT ![p] =
                      [@ EXCEPT !.inserted =
                          @ \cup {Row(NewId(p, k), txn[p].device_id, txn[p].schedule[k])}]]
    /\ UNCHANGED <<now, users, devices, device_schedules, telemetry, attempts,
                   initial_schedule, calls, limiter_log, resp>>

\* the rows a commit of p leaves in the table
Committed(p) ==
    {r \in device_schedules : r.id \notin txn[p].deleted} \cup txn[p].inserted

\* the with-block ends: conn.commit(), then the success response
set_device_schedule_commit(p) ==
    /\ txn[p].pc = "insert"
    /\ Cardinality(txn[p].inserted) = Len(txn[p].schedule)
    /\ device_schedules' = Committed(p)
    /\ Finish(p, [op |-> "set_device_schedule", proc |-> p, status |-> 200])
    /\ UNCHANGED <<now, users, devices, telemetry, attempts, initial_schedule, calls, limiter_log>>

\* a statement of the with-block raises (the storage is unavailable): the
\* except clause runs conn.rollback() and re-raises, and the request is answered
\* by general_exception_handler
set_device_schedule_raise(p) ==
    /\ \/ txn[p].pc \in {"select_device", "delete", "deleting"}
       \/ txn[p].pc = "insert" /\ Cardinality(txn[p].inserted) < Len(txn[p].schedule)
    /\ Finish(p, [op |-> "set_device_schedule", proc |-> p, status |-> 500])
    /\ UNCHANGED <<now, users, devices, device_schedules, telemetry, attempts,
                   initial_schedule, calls, limiter_log>>

(***************************************************************************)
(* get_device_schedule, one action per statement.                          *)
(***************************************************************************)
\* SELECT id FROM devices WHERE id = %s AND user_id = %s; 404 rolls back
get_device_schedule_select_device(p, d, user_id) ==
    /\ txn[p].pc = "idle"
    /\ IF d \in DOMAIN devices /\ devices[d].user_id = user_id
       THEN /\ txn' = [txn EXCEPT ![p] = [IdleTxn EXCEPT !.pc = "select", !.device_id = d,
                                                         !.conn = TRUE]]
            /\ resp' = resp
       ELSE /\ txn' = [txn EXCEPT ![p] = [IdleTxn EXCEPT !.pc = "done", !.device_id = d,
                                                         !.putconns = 1]]
            /\ resp' = [op |-> "get_device_schedule", proc |-> p, status |-> 404]
    /\ UNCHANGED <<now, users, devices, device_schedules, telemetry, attempts,
                   initial_schedule, calls, limiter_log>>

\* SELECT ... FROM device_schedules WHERE device_id = %s ORDER BY day_of_week,
\* start_hour; rows equal in both are listed in the order of ScheduleList
get_device_schedule_select(p) ==
    /\ txn[p].pc = "select"
    /\ Finish(p, [op |-> "get_device_schedule", proc |-> p, status |-> 200,
                  device_id |-> txn[p].device_id,
                  schedule |-> ScheduleList(SchedulesOf(device_schedules,
                                                        txn[p].device_id))])
    /\ UNCHANGED <<now, users, devices, device_schedules, telemetry, attempts,
                   initial_schedule, calls, limiter_log>>

(***************************************************************************)
(* Concurrent requests on the schedule of device d1: NumWriters replaces   *)
(* and NumReaders reads by the owner, and the projector reading alongside. *)
(***************************************************************************)
TxnBlocks == {Block(1, 18, 22, 350), Block(2, 0, 23, 50)}

TxnScheduleRows(d, n) ==
    {{Row(i, d, s[i]) : i \in Indices(s)} :
        s \in {q \in UNION {[1..k -> TxnBlocks] : k \in 0..n} :
                  \A i \in Indices(q), j \in Indices(q) :
                      i < j => BlockKey(q[i]) <= BlockKey(q[j])}}

Requests == UNION {[1..k -> TxnBlocks] : k \in 0..MaxBlocks}

\* a user who has made no request yet, or max_attempts of them this minute
AttemptsSoFar == {<<>>, [k \in 1..DeviceMaxAttempts |-> StartNow]}

InitTxn ==
    /\ now = StartNow
    /\ users = InitialUsers
    /\ devices = InitialDevices
    /\ \E a \in AttemptsSoFar : attempts = [NoAttempts EXCEPT !.device["u1"] = a]
    /\ txn = [p \in Procs |-> IdleTxn]
    /\ device_schedules \in TxnScheduleRows("d1", MaxBlocks)
    /\ initial_schedule = device_schedules
    /\ calls = NoCalls
    /\ limiter_log = <<>>
    /\ telemetry = <<>>
    /\ resp = NoResp

NextTxn ==
    \/ \E p \in Writers, d \in DeviceIds, s \in Requests :
          set_device_schedule_begin(p, d, s, "u1")
    \/ \E p \in Writers : set_device_schedule_select_device(p, "u1")
    \/ \E p \in Writers : set_device_schedule_delete(p)
    \/ \E p \in Writers : set_device_schedule_deleted(p)
    \/ \E p \in Writers : set_device_schedule_insert(p)
    \/ \E p \in Writers : set_device_schedule_commit(p)
    \/ \E p \in Readers, d \in DeviceIds : get_device_schedule_select_device(p, d, "u1")
    \/ \E p \in Readers : get_device_schedule_select(p)
    \/ calculate_monthly_projection("d1")

SpecTxn == InitTxn /\ [][NextTxn]_vars

(***************************************************************************)
(* Authentication (backend/shared/auth.py).  A request carries no          *)
(* Authorization header, a token jwt.decode rejects, or a token signed by  *)
(* the auth service for a user: its payload has sub (the email) and        *)
(* user_id.                                                                *)
(***************************************************************************)
NoToken == [kind |-> "none", sub |-> "", user_id |-> ""]
BadToken == [kind |-> "invalid", sub |-> "", user_id |-> ""]
Bearer(email, user_id) == [kind |-> "bearer", sub |-> email, user_id |-> user_id]

\* oauth2_scheme finds a header, jwt.decode succeeds and the payload has a sub
decode_token(token) == token.kind = "bearer" /\ token.sub # ""
\* token_data["user_id"]
get_current_user_id(token) == token.user_id
\* token_data["email"]
get_current_user_email(token) == token.sub

Unauthorized(op) == [op |-> op, status |-> 401]

\* Depends(get_current_user_id) raises before the handler runs
reject_unauthenticated(op, token) ==
    /\ ~decode_token(token)
    /\ resp' = Unauthorized(op)
    /\ UNCHANGED <<now, users, devices, device_schedules, telemetry, attempts,
                   txn, initial_schedule, calls, limiter_log>>

(***************************************************************************)
(* The device endpoints of backend/telemetry-service/main.py.              *)
(***************************************************************************)
\* device_rate_limiter.check_rate_limit(str(user_id)): the attempts afterwards
DeviceAttemptsAfter(user_id) ==
    [attempts EXCEPT !.device =
        WithAttempts(@, user_id, AfterCheck(AttemptsOf(@, user_id), now))]
DeviceLimited(user_id) == Limited(AttemptsOf(attempts.device, user_id), now)

TooManyRequests(op) == [op |-> op, status |-> 429]
DeviceNotFound(op) == [op |-> op, status |-> 404]

\* a check of the id alone
DeviceExists(d, user_id) == d \in DOMAIN devices
\* SELECT id FROM devices WHERE id = %s AND user_id = %s finds a row
Owns(d, user_id) == d \in DOMAIN devices /\ devices[d].user_id = user_id

\* RETURNING id: an id no row of devices has
NewDeviceId(devs) ==
    LET Id(k) == "n" \o ToString(k)
        k == CHOOSE i \in 1..(Cardinality(DOMAIN devs) + 1) :
                 /\ Id(i) \notin DOMAIN devs
                 /\ \A j \in 1..(i - 1) : Id(j) \in DOMAIN devs
    IN  Id(k)

\* INSERT INTO devices ... RETURNING id; INSERT INTO telemetry (NOW(), id, 0)
create_device(token, device) ==
    IF ~decode_token(token)
    THEN /\ resp' = Unauthorized("create_device")
         /\ UNCHANGED <<now, users, devices, device_schedules, telemetry, attempts,
                        txn, initial_schedule, calls, limiter_log>>
    ELSE LET user_id == get_current_user_id(token)
             device_id == NewDeviceId(devices)
         IN  /\ attempts' = DeviceAttemptsAfter(user_id)
             /\ IF DeviceLimited(user_id)
                THEN /\ resp' = TooManyRequests("create_device")
                     /\ UNCHANGED <<devices, telemetry>>
                ELSE /\ devices' =
                          [d \in DOMAIN devices \cup {device_id} |->
                              IF d = device_id
                              THEN Device(user_id, device.name, device.room,
                                          device.power_rating)
                              ELSE devices[d]]
                     /\ telemetry' = Append(telemetry, Reading(now, device_id, 0))
                     /\ resp' = [op |-> "create_device", status |-> 201,
                                 id |-> device_id]
             /\ UNCHANGED <<now, users, device_schedules, txn,
                 initial_schedule, calls, limiter_log>>

\* an UPDATE that sets both columns whatever the body carries
UpdatedBoth(row, device_update) ==
    [row EXCEPT !.name = device_update.name, !.power_rating = device_update.power_rating]

\* the row after UPDATE devices SET name = ..., power_rating = ...: a field of
\* the request that is None (written "" or 0) is left alone
Updated(row, device_update) ==
    [row EXCEPT !.name = IF device_update.name # "" THEN device_update.name ELSE @,
                !.power_rating = IF device_update.power_rating # 0
                                 THEN device_update.power_rating ELSE @]

update_device(token, device_id, device_update) ==
    IF ~decode_token(token)
    THEN /\ resp' = Unauthorized("update_device")
         /\ UNCHANGED <<now, users, devices, device_schedules, telemetry, attempts,
                        txn, initial_schedule, calls, limiter_log>>
    ELSE LET user_id == get_current_user_id(token)
         IN  /\ attempts' = DeviceAttemptsAfter(user_id)
             /\ IF DeviceLimited(user_id)
                THEN /\ resp' = TooManyRequests("update_device")
                     /\ UNCHANGED devices
                ELSE IF ~Owns(device_id, user_id)
                THEN /\ resp' = DeviceNotFound("update_device")
                     /\ UNCHANGED devices
                ELSE /\ devices' = [devices EXCEPT ![device_id] =
                                       Updated(@, device_update)]
                     /\ resp' = [op |-> "update_device", status |-> 200]
             /\ UNCHANGED <<now, users, device_schedules, telemetry, txn,
                            initial_schedule, calls, limiter_log>>

\* create_device when its second INSERT raises: the first one is rolled back
create_device_raise(token, device) ==
    /\ decode_token(token)
    /\ ~DeviceLimited(get_current_user_id(token))
    /\ attempts' = DeviceAttemptsAfter(get_current_user_id(token))
    /\ resp' = [op |-> "create_device", status |-> 500]
    /\ UNCHANGED <<now, users, devices, device_schedules, telemetry, txn,
                   initial_schedule, calls, limiter_log>>

\* the rows of the other tables that belong to the deleted device go with it
RowsWithout(rows, device_id) == {r \in rows : r.device_id # device_id}
ReadingsWithout(readings, device_id) ==
    LET Other(r) == r.device_id # device_id IN SelectSeq(readings, Other)

\* DELETE FROM devices WHERE id = %s AND user_id = %s; rowcount 0 is a 404
delete_device(token, device_id) ==
    IF ~decode_token(token)
    THEN /\ resp' = Unauthorized("delete_device")
         /\ UNCHANGED <<now, users, devices, device_schedules, telemetry, attempts,
                        txn, initial_schedule, calls, limiter_log>>
    ELSE LET user_id == get_current_user_id(token)
         IN  /\ attempts' = DeviceAttemptsAfter(user_id)
             /\ IF DeviceLimited(user_id)
                THEN /\ resp' = TooManyRequests("delete_device")
                     /\ UNCHANGED <<devices, device_schedules, telemetry>>
                ELSE IF ~Owns(device_id, user_id)
                THEN /\ resp' = DeviceNotFound("delete_device")
                     /\ UNCHANGED <<devices, device_schedules, telemetry>>
                ELSE /\ devices' = [d \in DOMAIN devices \ {device_id} |-> devices[d]]
                     /\ device_schedules' = RowsWithout(device_schedules, device_id)
                     /\ telemetry' = ReadingsWithout(telemetry, device_id)
                     /\ resp' = [op |-> "delete_device", status |-> 200]
             /\ UNCHANGED <<now, users, txn, initial_schedule, calls, limiter_log>>

\* POST /telemetry: the handler declares no dependency on the token, so the
\* request is served whatever Authorization header it carries
record_telemetry_request(token, d, u) == record_telemetry(d, u)

(***************************************************************************)
(* The telemetry service serving requests one at a time: the device        *)
(* endpoints, one set_device_schedule and one get_device_schedule, and      *)
(* record_telemetry, from the two users and from callers without a valid   *)
(* token.                                                                  *)
(***************************************************************************)
MaxRequests == 2      \* requests the device rate limiter records in a run

DeviceTokens == {NoToken, BadToken, Bearer("u1", "u1"), Bearer("u2", "u2")}
ValidTokens == {t \in DeviceTokens : decode_token(t)}
NewDevices == {[name |-> "lamp", room |-> "office", power_rating |-> 6]}
\* DeviceUpdate: a field left out of the body is None, written "" and 0 here;
\* Field(None, min_length=1) and Field(None, gt=0) admit no present "" or 0
DeviceUpdates == {[name |-> n, power_rating |-> p] : n \in {"", "tv"}, p \in {0, 150}}
RequestedIds == DeviceIds \cup {"none"}
GuardedEndpoints == {"set_device_schedule", "get_device_schedule"}

\* no request is inside a transaction
Quiet == \A q \in Procs : ~Open(q)
\* the rate limiter has recorded fewer than MaxRequests requests of this run
Budget ==
    LET fresh == {u \in DOMAIN attempts.device :
                     Len(attempts.device[u]) < DeviceMaxAttempts}
    IN  SumFn([u \in fresh |-> Len(attempts.device[u])], fresh) < MaxRequests

InitDevices ==
    /\ now = StartNow
    /\ users = InitialUsers
    /\ devices = InitialDevices
    /\ \E a \in AttemptsSoFar : attempts = [NoAttempts EXCEPT !.device["u1"] = a]
    /\ txn = [p \in Procs |-> IdleTxn]
    /\ device_schedules = {Row(1, "d1", Block(1, 18, 22, 350)),
                           Row(2, "d2", Block(2, 0, 23, 50))}
    /\ initial_schedule = device_schedules
    /\ calls = NoCalls
    /\ limiter_log = <<>>
    /\ telemetry = <<Reading(StartNow - Hrs(2), "d1", 750)>>
    /\ resp = NoResp

NextDevices ==
    \/ \E t \in DeviceTokens, device \in NewDevices :
          Quiet /\ Budget /\ Len(telemetry) < MaxReadings /\ create_device(t, device)
    \/ \E t \in DeviceTokens, d \in RequestedIds, u \in DeviceUpdates :
          Quiet /\ Budget /\ update_device(t, d, u)
    \/ \E t \in DeviceTokens, d \in RequestedIds :
          Quiet /\ Budget /\ delete_device(t, d)
    \/ \E t \in DeviceTokens, op \in GuardedEndpoints :
          Quiet /\ reject_unauthenticated(op, t)
    \/ \E t \in ValidTokens, d \in RequestedIds, s \in {<<>>, <<Block(2, 0, 23, 50)>>} :
          Quiet /\ Budget /\ set_device_schedule_begin(1, d, s, get_current_user_id(t))
    \/ \E t \in ValidTokens : set_device_schedule_select_device(1, get_current_user_id(t))
    \/ set_device_schedule_delete(1)
    \/ set_device_schedule_deleted(1)
    \/ set_device_schedule_insert(1)
    \/ set_device_schedule_commit(1)
    \/ \E p \in Readers, t \in ValidTokens, d \in RequestedIds :
          Quiet /\ get_device_schedule_select_device(p, d, get_current_user_id(t))
    \/ \E p \in Readers : get_device_schedule_select(p)
    \/ \E t \in DeviceTokens, d \in DeviceIds :
          Quiet /\ record_telemetry_request(t, d, 750)

SpecDevices == InitDevices /\ [][NextDevices]_vars

\* the requests that use get_connection, with statements that may raise
NextPool ==
    \/ \E t \in ValidTokens, device \in NewDevices :
          Quiet /\ Budget /\ Len(telemetry) < MaxReadings /\ create_device(t, device)
    \/ \E t \in ValidTokens, device \in NewDevices :
          Quiet /\ Budget /\ create_device_raise(t, device)
    \/ \E p \in Writers, d \in RequestedIds, s \in {<<>>, <<Block(2, 0, 23, 50)>>} :
          Budget /\ set_device_schedule_begin(p, d, s, "u1")
    \/ \E p \in Writers : set_device_schedule_select_device(p, "u1")
    \/ \E p \in Writers : set_device_schedule_delete(p)
    \/ \E p \in Writers : set_device_schedule_deleted(p)
    \/ \E p \in Writers : set_device_schedule_insert(p)
    \/ \E p \in Writers : set_device_schedule_commit(p)
    \/ \E p \in Writers : set_device_schedule_raise(p)
    \/ \E p \in Readers, d \in RequestedIds : get_device_schedule_select_device(p, d, "u1")
    \/ \E p \in Readers : get_device_schedule_select(p)

SpecPool == InitDevices /\ [][NextPool]_vars

(***************************************************************************)
(* Registration.  register_user of backend/auth_service/main.py stores the *)
(* user, six default devices, their schedules and seven days of telemetry  *)
(* in one transaction.                                                     *)
(***************************************************************************)
\* default_devices: name, room and power_rating (0.01 kW), in list order
default_devices ==
    <<[name |-> "Living Room AC", room |-> "living_room", power_rating |-> 350],
      [name |-> "Kitchen Refrigerator", room |-> "kitchen", power_rating |-> 50],
      [name |-> "Master Bedroom Light", room |-> "bedroom", power_rating |-> 6],
      [name |-> "Smart Thermostat", room |-> "living_room", power_rating |-> 200],
      [name |-> "Home Office Outlet", room |-> "office", power_rating |-> 30],
      [name |-> "Washing Machine", room |-> "laundry", power_rating |-> 200]>>

\* [(d, start, end, power) for d in days], in the order of days
EachDay(days, start, end, power) ==
    [k \in Indices(days) |-> Block(days[k], start, end, power)]

\* default_schedules[name]
default_schedules(name) ==
    LET AllWeek == <<0, 1, 2, 3, 4, 5, 6>>
    IN
    CASE name = "Living Room AC" ->
            EachDay(<<1, 2, 3, 4, 5>>, 18, 22, 350) \o EachDay(<<6, 0>>, 12, 23, 350)
      [] name = "Washing Machine" -> EachDay(<<2, 5>>, 10, 12, 200)
      [] name = "Home Office Outlet" -> EachDay(<<1, 2, 3, 4, 5>>, 9, 17, 30)
      [] name = "Kitchen Refrigerator" -> EachDay(AllWeek, 0, 23, 50)
      [] name = "Master Bedroom Light" -> EachDay(AllWeek, 20, 23, 6)
      [] name = "Smart Thermostat" ->
            EachDay(AllWeek, 6, 9, 200) \o EachDay(AllWeek, 17, 22, 200)

\* power * random.uniform(0.9, 1.1), in 0.01 kWh: the draws of one call are the
\* least and the greatest amount of the range, alternating from hour to hour and
\* starting with either
Uniform(power, hour, draw) ==
    IF (hour + draw) % 2 = 0 THEN (power * 9 + 9) \div 10 ELSE (power * 11) \div 10
Draws == {0, 1}

\* usage of one hour: the first block of day_schedule with start <= hour < end
SeedUsage(day_schedule, hour, draw) ==
    LET on == {k \in Indices(day_schedule) :
                  /\ day_schedule[k].start_hour <= hour
                  /\ hour < day_schedule[k].end_hour}
    IN  IF on = {} THEN 0
        ELSE LET first == CHOOSE k \in on : \A j \in on : k <= j
             IN  Uniform(day_schedule[first].power_consumption, hour, draw)

\* the readings stored for one device: for days_ago in range(7), for hour in
\* range(24), at timestamp.replace(hour=hour, minute=0, second=0) of now - days_ago
\* days, when usage > 0
SeedReadings(t, device_id, name, draw) ==
    LET schedule == default_schedules(name)
        all == [k \in 1..(7 * 24) |->
                   LET days_ago == (k - 1) \div 24
                       hour == (k - 1) % 24
                       timestamp == t - Days(days_ago)
                       day_of_week == (Weekday(timestamp) + 1) % 7
                       OfDay(s) == s.day_of_week = day_of_week
                   IN  Reading(DateTruncDay(timestamp) + Hrs(hour), device_id,
                               SeedUsage(SelectSeq(schedule, OfDay), hour, draw))]
        Used(r) == r.energy_usage > 0
    IN  SelectSeq(all, Used)

\* the greatest id of device_schedules
MaxRowId(rows) ==
    IF rows = {} THEN 0 ELSE CHOOSE i \in {r.id : r \in rows} : \A r \in rows : r.id <= i

\* RETURNING id of the k-th device inserted into devs: the k-th unused id
KthNewDeviceId(devs, k) ==
    LET Id(i) == "n" \o ToString(i)
        Unused(i) == {j \in 1..i : Id(j) \notin DOMAIN devs}
        i == CHOOSE j \in 1..(Cardinality(DOMAIN devs) + k) :
                 Id(j) \notin DOMAIN devs /\ Cardinality(Unused(j)) = k
    IN  Id(i)

\* the tables [devices, device_schedules, telemetry] after the default devices
\* of user_id, their schedules and their readings are stored, device by device
create_default_devices(db, user_id, t, draw) ==
    LET N == Indices(default_devices)
        ids == [k \in N |-> KthNewDeviceId(db.devices, k)]
        schedule == [k \in N |-> default_schedules(default_devices[k].name)]
        first == [k \in N |-> MaxRowId(db.device_schedules)
                                  + SumFn([j \in 1..(k - 1) |-> Len(schedule[j])],
                                          1..(k - 1))]
        seed == [k \in N |-> SeedReadings(t, ids[k], default_devices[k].name, draw)]
    IN  [devices |->
            [d \in DOMAIN db.devices \cup {ids[k] : k \in N} |->
                IF d \in DOMAIN db.devices THEN db.devices[d]
                ELSE LET k == CHOOSE j \in N : ids[j] = d
                     IN  Device(user_id, default_devices[k].name,
                                default_devices[k].room,
                                default_devices[k].power_rating)],
         device_schedules |->
            db.device_schedules
                \cup {Row(first[k] + j, ids[k], schedule[k][j]) :
                         <<k, j>> \in {<<k, j>> \in N \X (1..14) : j <= Len(schedule[k])}},
         telemetry |->
            db.telemetry \o seed[1] \o seed[2] \o seed[3] \o seed[4] \o seed[5] \o seed[6]]

Db == [devices |-> devices, device_schedules |-> device_schedules,
       telemetry |-> telemetry]

\* RETURNING id: an id no row of users has
NewUserId(rows) ==
    LET Id(k) == "id" \o ToString(k)
        k == CHOOSE i \in 1..(Cardinality(rows) + 1) :
                 /\ \A u \in rows : u.id # Id(i)
                 /\ \A j \in 1..(i - 1) : \E u \in rows : u.id = Id(j)
    IN  Id(k)

\* a lookup that finds nobody
existing_user_never(email) == FALSE
\* SELECT id FROM users WHERE email = %s finds a row
existing_user(email) == UserIds(email) # {}

\* SELECT COUNT(*) FROM devices WHERE user_id = %s
DeviceCount(devs, user_id) == Cardinality({d \in DOMAIN devs : devs[d].user_id = user_id})

register_user(email, password, salt, draw) ==
    /\ resp = NoResp
    /\ IF existing_user(email)
       THEN /\ resp' = [op |-> "register_user", copy |-> "auth_service",
                        status |-> 400, email |-> email]
            /\ UNCHANGED <<users, devices, device_schedules, telemetry>>
       ELSE LET user_id == NewUserId(users)
                db == create_default_devices(Db, user_id, now, draw)
            IN  /\ users' = users \cup {UserRow(user_id, email, hashpw(password, salt))}
                /\ devices' = db.devices
                /\ device_schedules' = db.device_schedules
                /\ telemetry' = db.telemetry
                /\ resp' = [op |-> "register_user", copy |-> "auth_service",
                            status |-> 201, email |-> email, user_id |-> user_id,
                            devices_created |-> DeviceCount(db.devices, user_id)]
    /\ UNCHANGED <<now, attempts, txn, initial_schedule, calls, limiter_log>>

(***************************************************************************)
(* register_user of backend/auth-service/main.py, the later copy: the user *)
(* is committed first, then the device service is asked to create the      *)
(* defaults; any failure of that request is answered with devices_created  *)
(* = 0.  The device service's /devices/create-defaults is taken to store   *)
(* what create_default_devices stores.                                     *)
(***************************************************************************)
AuthMaxAttempts == 5
AuthWindowMinutes == 15

\* check_rate_limit of a limiter with max_attempts and window_minutes: the
\* attempts of the window, whether they fill it, and the list kept afterwards
WindowPruned(list, t, window_minutes) ==
    LET Recent(a) == t - a < window_minutes
    IN  SelectSeq(list, Recent)
WindowLimited(list, t, max_attempts, window_minutes) ==
    Len(WindowPruned(list, t, window_minutes)) >= max_attempts
AfterWindowCheck(list, t, max_attempts, window_minutes) ==
    IF WindowLimited(list, t, max_attempts, window_minutes)
    THEN WindowPruned(list, t, window_minutes)
    ELSE Append(WindowPruned(list, t, window_minutes), t)

\* response.raise_for_status() passes, or the request fails
DeviceServiceOutcomes == {"created", "failed"}

register_user_later(email, password, salt, draw, outcome) ==
    /\ resp = NoResp
    /\ attempts' = [attempts EXCEPT !.auth =
                        WithAttempts(@, email,
                                     AfterWindowCheck(AttemptsOf(@, email), now,
                                                      AuthMaxAttempts,
                                                      AuthWindowMinutes))]
    /\ IF WindowLimited(AttemptsOf(attempts.auth, email), now,
                       AuthMaxAttempts, AuthWindowMinutes)
       THEN /\ resp' = [op |-> "register_user", copy |-> "auth-service",
                        status |-> 429, email |-> email]
            /\ UNCHANGED <<users, devices, device_schedules, telemetry>>
       ELSE IF existing_user(email)
       THEN /\ resp' = [op |-> "register_user", copy |-> "auth-service",
                        status |-> 400, email |-> email]
            /\ UNCHANGED <<users, devices, device_schedules, telemetry>>
       ELSE LET user_id == NewUserId(users)
                db == IF outcome = "created"
                      THEN create_default_devices(Db, user_id, now, draw)
                      ELSE Db
            IN  /\ users' = users \cup {UserRow(user_id, email, hashpw(password, salt))}
                /\ devices' = db.devices
                /\ device_schedules' = db.device_schedules
                /\ telemetry' = db.telemetry
                /\ resp' = [op |-> "register_user", copy |-> "auth-service",
                            status |-> 201, email |-> email, user_id |-> user_id,
                            devices_created |-> IF outcome = "created"
                                                THEN Len(default_devices) ELSE 0]
    /\ UNCHANGED <<now, txn, initial_schedule, calls, limiter_log>>

(***************************************************************************)
(* login_user of backend/auth_service/main.py and of the later copy        *)
(* backend/auth-service/main.py, which consults the auth rate limiter      *)
(* first.  The access token is written as its payload.                     *)
(***************************************************************************)
\* bcrypt.gensalt() of the registrations of a run
NewSalts == {"s1", "s2"}
Passwords == {InitialPassword, "wrong"}

\* the outcome once the rate limiter has let the request pass
LoginOutcome(copy, email, password) ==
    LET found == {u \in users : u.email = email}
    IN  IF found = {}
        THEN [op |-> "login_user", copy |-> copy, status |-> 404,
              detail |-> "User not found."]
        ELSE LET db_user == CHOOSE u \in found : TRUE
             IN  IF ~verify_password(password, db_user.password_hash)
                 THEN [op |-> "login_user", copy |-> copy, status |-> 401,
                       detail |-> "Incorrect password"]
                 ELSE [op |-> "login_user", copy |-> copy, status |-> 200,
                       access_token |-> Bearer(db_user.email, db_user.id),
                       token_type |-> "bearer"]

login_user(email, password) ==
    /\ resp = NoResp
    /\ resp' = LoginOutcome("auth_service", email, password)
    /\ UNCHANGED <<now, users, devices, device_schedules, telemetry, attempts,
                   txn, initial_schedule, calls, limiter_log>>

login_user_later(email, password) ==
    /\ resp = NoResp
    /\ attempts' = [attempts EXCEPT !.auth =
                        WithAttempts(@, email,
                                     AfterWindowCheck(AttemptsOf(@, email), now,
                                                      AuthMaxAttempts,
                                                      AuthWindowMinutes))]
    /\ resp' = IF WindowLimited(AttemptsOf(attempts.auth, email), now,
                                AuthMaxAttempts, AuthWindowMinutes)
               THEN [op |-> "login_user", copy |-> "auth-service", status |-> 429]
               ELSE LoginOutcome("auth-service", email, password)
    /\ UNCHANGED <<now, users, devices, device_schedules, telemetry, txn,
                   initial_schedule, calls, limiter_log>>

(***************************************************************************)
(* get_dashboard_data of backend/ai_service/main.py and of its later copy  *)
(* backend/ai-service/main.py (get_user_data).                             *)
(***************************************************************************)
\* the elements of a set as a list: ORDER BY d.room, d.name, with the collation
\* of the names left open
RECURSIVE SeqOf(_)
SeqOf(S) ==
    IF S = {} THEN <<>>
    ELSE LET x == CHOOSE y \in S : TRUE IN <<x>> \o SeqOf(S \ {x})

\* ORDER BY timestamp DESC LIMIT 1: the rows of the device none is later than
LatestReadings(readings, d) ==
    {i \in Indices(readings) :
        /\ readings[i].device_id = d
        /\ \A j \in Indices(readings) :
               readings[j].device_id = d => readings[j].timestamp <= readings[i].timestamp}

\* the usage of every reading of the device, as a join without the LIMIT gives
AnyUsage(readings, d, pick) ==
    LET I == {i \in Indices(readings) : readings[i].device_id = d}
        usages == {readings[i].energy_usage : i \in I}
    IN  IF I = {} THEN 0
        ELSE IF pick = "least" THEN CHOOSE u \in usages : \A v \in usages : u <= v
        ELSE CHOOSE u \in usages : \A v \in usages : v <= u
\* COALESCE(t.energy_usage, 0): when several rows share the latest timestamp the
\* query returns one of them; pick draws the one of least or of greatest usage
LatestUsage(readings, d, pick) ==
    LET I == LatestReadings(readings, d)
        usages == {readings[i].energy_usage : i \in I}
    IN  IF I = {} THEN 0
        ELSE IF pick = "least" THEN CHOOSE u \in usages : \A v \in usages : u <= v
        ELSE CHOOSE u \in usages : \A v \in usages : v <= u
Picks == {"least", "greatest"}

\* the rows of devices whose user_id is in ids, each with its latest usage
CurrentUsage(ids, pick) ==
    LET ds == {d \in DOMAIN devices : devices[d].user_id \in ids}
        list == SeqOf(ds)
    IN  [k \in Indices(list) |->
            [device |-> list[k], name |-> devices[list[k]].name,
             room |-> devices[list[k]].room,
             usage |-> LatestUsage(telemetry, list[k], pick)]]

\* COALESCE(SUM(t.energy_usage), 0) ... WHERE d.user_id in ids AND t.timestamp >= since
TotalSince(ids, since) ==
    LET I == {i \in Indices(telemetry) :
                 /\ telemetry[i].device_id \in DOMAIN devices
                 /\ devices[telemetry[i].device_id].user_id \in ids
                 /\ telemetry[i].timestamp >= since}
    IN  UsageSum(telemetry, I)

ElectricityRateX100 == 12      \* 0.12 per kWh

\* the last 24 hours
TodaySinceRolling(t) == t - Hrs(24)
\* CURRENT_DATE
TodaySince(t) == DateTruncDay(t)

\* the response of get_dashboard_data.  WHERE d.user_id = (SELECT id FROM users
\* WHERE email = %s): an email without a user row selects no device
DashboardData(current_user_email, pick) ==
    LET ids == UserIds(current_user_email)
        month_total == TotalSince(ids, DateTruncMonth(now))
    IN  [op |-> "get_dashboard_data", copy |-> "ai_service",
         status |-> 200, email |-> current_user_email,
         current_usage |-> CurrentUsage(ids, pick),
         today_total |-> TotalSince(ids, TodaySince(now)),
         month_total |-> month_total,
         estimated_monthly_cost |->
             [num |-> month_total * ElectricityRateX100, den |-> 100]]

\* the handler with the rate limiter of handle_query in front
get_dashboard_data_limited(current_user_email, pick) ==
    /\ resp = NoResp
    /\ resp' = DashboardData(current_user_email, pick)
    /\ attempts' = [attempts EXCEPT !.ai =
                        WithAttempts(@, current_user_email,
                                     Append(AttemptsOf(@, current_user_email), now))]
    /\ UNCHANGED <<now, users, devices, device_schedules, telemetry, txn,
                   initial_schedule, calls, limiter_log>>
get_dashboard_data(current_user_email, pick) ==
    /\ resp = NoResp
    /\ resp' = DashboardData(current_user_email, pick)
    /\ UNCHANGED <<now, users, devices, device_schedules, telemetry, attempts,
                   txn, initial_schedule, calls, limiter_log>>

InternalError(op, copy) == [op |-> op, copy |-> copy, status |-> 500]

\* get_user_data and the fields get_dashboard_data of the later copy returns of
\* it: user_id = cur.fetchone()[0] raises TypeError without a row
get_user_data(current_user_email, pick) ==
    IF ~existing_user(current_user_email)
    THEN InternalError("get_dashboard_data", "ai-service")
    ELSE LET ids == {UserId(current_user_email)}
             month_kwh == TotalSince(ids, DateTruncMonth(now))
         IN  [op |-> "get_dashboard_data", copy |-> "ai-service",
              status |-> 200, email |-> current_user_email,
              current_usage |-> CurrentUsage(ids, pick),
              today_total |-> TotalSince(ids, TodaySinceRolling(now)),
              month_total |-> month_kwh,
              estimated_monthly_cost |->
                  [num |-> month_kwh * ElectricityRateX100, den |-> 100]]

get_dashboard_data_later(current_user_email, pick) ==
    /\ resp = NoResp
    /\ resp' = get_user_data(current_user_email, pick)
    /\ UNCHANGED <<now, users, devices, device_schedules, telemetry, attempts,
                   txn, initial_schedule, calls, limiter_log>>

(***************************************************************************)
(* handle_query of backend/ai_service/main.py: the rate limiter, the       *)
(* intent the language model returns, and the DATA_QUERY branch for the    *)
(* queries that name no device.                                            *)
(***************************************************************************)
AiMaxAttempts == 10
AiWindowMinutes == 5

RECURSIVE ProdFn(_, _)
ProdFn(f, S) ==
    IF S = {} THEN 1
    ELSE LET x == CHOOSE y \in S : TRUE IN f[x] * ProdFn(f, S \ {x})

\* total_monthly_projection: the sum of the devices' projections, as a fraction
TotalProjection(ds) ==
    LET p == [d \in ds |-> monthly_projection(device_schedules, telemetry, d, now)]
        history == {d \in ds : p[d].path = "history"}
        den == 100 * ProdFn([d \in history |-> p[d].den], history)
    IN  [num |-> SumFn([d \in ds |-> p[d].num * (den \div p[d].den)], ds), den |-> den]

\* datetime.now().day
DayOfMonth(t) == DayOfYear(t) - DaysBeforeMonth(MonthOf(t)) + 1
\* days_in_month = 30
DaysInMonth == 30

Intents == {"GENERAL_ADVICE", "DATA_QUERY"}
QueryTypes == {"LIST_DEVICES", "SUM", "AVG"}

handle_query(current_user_email, intent_type, query_type) ==
    /\ resp = NoResp
    /\ attempts' = [attempts EXCEPT !.ai =
                        WithAttempts(@, current_user_email,
                                     AfterWindowCheck(AttemptsOf(@, current_user_email),
                                                      now, AiMaxAttempts,
                                                      AiWindowMinutes))]
    /\ resp' =
        IF WindowLimited(AttemptsOf(attempts.ai, current_user_email), now,
                        AiMaxAttempts, AiWindowMinutes)
        THEN [op |-> "handle_query", copy |-> "ai_service", status |-> 429]
        ELSE IF intent_type = "GENERAL_ADVICE"
        THEN [op |-> "handle_query", copy |-> "ai_service", status |-> 200,
              summary |-> "Wat - Your Energy Assistant"]
        ELSE IF ~existing_user(current_user_email)
        THEN InternalError("handle_query", "ai_service")
        ELSE LET user_id == UserId(current_user_email)
                 ds == UserDevices(user_id)
             IN  CASE query_type = "LIST_DEVICES" ->
                        [op |-> "handle_query", copy |-> "ai_service", status |-> 200,
                         summary |-> "Your Smart Home Devices", data |-> SeqOf(ds)]
                   [] query_type = "SUM" ->
                        [op |-> "handle_query", copy |-> "ai_service", status |-> 200,
                         summary |-> "Monthly Energy Forecast",
                         value |-> TotalProjection(ds),
                         days_remaining |-> DaysInMonth - DayOfMonth(now),
                         current_usage |->
                             SumFn([d \in ds |->
                                       UsageSum(telemetry,
                                                {i \in Indices(telemetry) :
                                                    /\ telemetry[i].device_id = d
                                                    /\ telemetry[i].timestamp
                                                           >= DateTruncMonth(now)})],
                                   ds)]
                   [] OTHER ->
                        [op |-> "handle_query", copy |-> "ai_service", status |-> 200,
                         summary |-> "Please specify a device"]
    /\ UNCHANGED <<now, users, devices, device_schedules, telemetry, txn,
                   initial_schedule, calls, limiter_log>>

(***************************************************************************)
(* The accounts of the system: two users with devices and telemetry, a     *)
(* third email that registers with either auth service, and the AI         *)
(* service's endpoints called for each of them and for an email without a  *)
(* user row.                                                               *)
(***************************************************************************)
AccountDevices ==
    [d \in DeviceIds \cup {"d3"} |->
        Device(IF d = "d2" THEN "u2" ELSE "u1", d, "kitchen", 100)]

\* readings of d1 taken 10 days ago (last month), 3 days ago, 16 hours ago
\* (yesterday) and 20 minutes ago, and one of the other user's d2
UsageHistory(t) ==
    <<Reading(t - Days(10), "d1", 100), Reading(t - Days(3), "d1", 200),
      Reading(t - Hrs(16), "d1", 400), Reading(t - Hrs(16), "d2", 750),
      Reading(t - 20, "d1", 800)>>
\* two readings of d1 stored with the same timestamp
TiedHistory(t) ==
    <<Reading(t - Days(3), "d1", 200), Reading(t - 20, "d1", 750),
      Reading(t - 20, "d1", -750)>>
AccountHistories(t) ==
    {<<>>, UsageHistory(t), TiedHistory(t), SubSeq(UsageHistory(t), 1, 3)}

RegisterEmails == {"u1", "u3"}
AccountCallers == {"u1", "u3", "nobody"}
AuthAttemptsSoFar == {<<>>, [k \in 1..AuthMaxAttempts |-> StartNow]}

\* the rate limiters have recorded fewer than MaxRequests requests of this run
AccountBudget ==
    LET auth == [e \in DOMAIN attempts.auth |->
                    IF Len(attempts.auth[e]) >= AuthMaxAttempts THEN 0
                    ELSE Len(attempts.auth[e])]
        ai == [e \in DOMAIN attempts.ai |-> Len(attempts.ai[e])]
    IN  SumFn(auth, DOMAIN auth) + SumFn(ai, DOMAIN ai) < MaxRequests

InitAccounts ==
    /\ now = StartNow
    /\ users = InitialUsers
    /\ devices = AccountDevices
    /\ \E a \in AuthAttemptsSoFar : attempts = [NoAttempts EXCEPT !.auth["u1"] = a]
    /\ txn = <<>>
    /\ device_schedules = {Row(1, "d1", Block(2, 18, 22, 350))} \cup OtherUserRows
    /\ initial_schedule = device_schedules
    /\ calls = NoCalls
    /\ limiter_log = <<>>
    /\ telemetry \in AccountHistories(now)
    /\ resp = NoResp

NextAccounts ==
    \/ \E e \in RegisterEmails, draw \in Draws :
          register_user(e, InitialPassword, "s1", draw)
    \/ \E e \in RegisterEmails, draw \in Draws, o \in DeviceServiceOutcomes :
          AccountBudget /\ register_user_later(e, InitialPassword, "s1", draw, o)
    \/ \E e \in AccountCallers, pick \in Picks : get_dashboard_data(e, pick)
    \/ \E e \in AccountCallers, pick \in Picks : get_dashboard_data_later(e, pick)
    \/ \E e \in AccountCallers, i \in Intents, q \in QueryTypes :
          AccountBudget /\ handle_query(e, i, q)
    \/ \E v \in Views, e \in AccountCallers : get_consumption_timeline(v, e)
    \/ \E v \in Views, e \in AccountCallers : get_consumption_timeline_later(v, e)
    \/ Deliver

SpecAccounts == InitAccounts /\ [][NextAccounts]_vars

\* handle_query on 5 February, on 30 January and on 31 January
QueryNows == {StartNow, Days(394) + Hrs(10), Days(395) + Hrs(10)}
AiAttemptsSoFar == {<<>>, [k \in 1..AiMaxAttempts |-> StartNow]}

InitQuery ==
    /\ now \in QueryNows
    /\ users = InitialUsers
    /\ devices = AccountDevices
    /\ \E a \in AiAttemptsSoFar : attempts = [NoAttempts EXCEPT !.ai["u2"] = a]
    /\ txn = <<>>
    /\ device_schedules = {Row(1, "d1", Block(2, 18, 22, 350))} \cup OtherUserRows
    /\ initial_schedule = device_schedules
    /\ calls = NoCalls
    /\ limiter_log = <<>>
    /\ telemetry \in AccountHistories(now)
    /\ resp = NoResp

NextQuery ==
    \/ \E e \in AccountCallers \cup {"u2"}, i \in Intents, q \in QueryTypes :
          AccountBudget /\ handle_query(e, i, q)
    \/ Deliver

SpecQuery == InitQuery /\ [][NextQuery]_vars

(***************************************************************************)
(* Logging in: the two users a run starts with, a third email that         *)
(* registers with either auth service, and login requests for each of them *)
(* and for an email without a user row, with the right and a wrong         *)
(* password.                                                               *)
(***************************************************************************)
InitLogin ==
    /\ now = StartNow
    /\ users = InitialUsers
    /\ devices = AccountDevices
    /\ \E a \in AuthAttemptsSoFar : attempts = [NoAttempts EXCEPT !.auth["u1"] = a]
    /\ txn = <<>>
    /\ device_schedules = OtherUserRows
    /\ initial_schedule = device_schedules
    /\ calls = NoCalls
    /\ limiter_log = <<>>
    /\ telemetry = <<>>
    /\ resp = NoResp

NextLogin ==
    \/ \E e \in RegisterEmails, salt \in NewSalts :
          register_user(e, InitialPassword, salt, 0)
    \/ \E e \in RegisterEmails, salt \in NewSalts, o \in DeviceServiceOutcomes :
          AccountBudget /\ register_user_later(e, InitialPassword, salt, 0, o)
    \/ \E e \in AccountCallers, password \in Passwords : login_user(e, password)
    \/ \E e \in AccountCallers, password \in Passwords :
          AccountBudget /\ login_user_later(e, password)
    \/ Deliver

SpecLogin == InitLogin /\ [][NextLogin]_vars

(***************************************************************************)
(* The request body of set_device_schedule.  backend/telemetry-service     *)
(* declares the ranges of ScheduleBlock and the framework answers 422 to a *)
(* body outside them before the handler runs; ScheduleBlock of             *)
(* backend/telemetry_service declares four plain fields and its handler    *)
(* stores what it is given, in one transaction.                            *)
(***************************************************************************)
\* List[ScheduleBlock] with Field(ge=0, le=6), Field(ge=0, le=23), Field(gt=0)
ValidSchedule(schedule) == \A k \in Indices(schedule) : schedule[k] \in ScheduleBlock

set_device_schedule_rejected(token, schedule) ==
    /\ decode_token(token)
    /\ ~ValidSchedule(schedule)
    /\ resp' = [op |-> "set_device_schedule", status |-> 422]
    /\ UNCHANGED <<now, users, devices, device_schedules, telemetry, attempts,
                   txn, initial_schedule, calls, limiter_log>>

\* set_device_schedule of backend/telemetry_service/main.py
set_device_schedule_legacy(token, device_id, schedule) ==
    /\ resp' =
         IF ~decode_token(token) \/ UserIds(token.sub) = {}
         THEN Unauthorized("set_device_schedule")
         ELSE IF ~Owns(device_id, UserId(token.sub))
         THEN [op |-> "set_device_schedule", status |-> 404]
         ELSE [op |-> "set_device_schedule", status |-> 200]
    /\ device_schedules' =
         IF resp'.status = 200
         THEN RowsWithout(device_schedules, device_id)
                  \cup {Row(MaxRowId(device_schedules) + k, device_id, schedule[k]) :
                           k \in Indices(schedule)}
         ELSE device_schedules
    /\ UNCHANGED <<now, users, devices, telemetry, attempts, txn,
        initial_schedule, calls, limiter_log>>

MaxScheduleId == 4    \* schedule row ids a run hands out before it stops storing
InvalidBlocks == {Block(7, 9, 17, 150), Block(1, 9, 24, 150), Block(1, 9, 17, 0)}
ScheduleRequests ==
    {<<>>, <<Block(2, 0, 23, 50)>>} \cup {<<Block(2, 0, 23, 50), b>> : b \in InvalidBlocks}

NextSchedules ==
    \/ \E t \in ValidTokens, s \in ScheduleRequests :
          Quiet /\ set_device_schedule_rejected(t, s)
    \/ \E d \in DeviceIds, s \in ScheduleRequests :
          Quiet /\ Budget /\ set_device_schedule_begin(1, d, s, "u1")
    \/ set_device_schedule_select_device(1, "u1")
    \/ set_device_schedule_delete(1)
    \/ set_device_schedule_deleted(1)
    \/ set_device_schedule_insert(1)
    \/ set_device_schedule_commit(1)
    \/ \E t \in DeviceTokens, d \in DeviceIds, s \in ScheduleRequests :
          /\ Quiet /\ resp = NoResp
          /\ MaxRowId(device_schedules) < MaxScheduleId
          /\ set_device_schedule_legacy(t, d, s)
    \/ Quiet /\ register_user("u3", InitialPassword, "s1", 0)
    \/ Quiet /\ Deliver

SpecSchedules == InitDevices /\ [][NextSchedules]_vars

(***************************************************************************)
(* RateLimiter.check_rate_limit, statement by statement.  The handlers of  *)
(* the auth and device services are plain `def` functions, which the       *)
(* framework runs on worker threads, so the calls of different requests    *)
(* interleave between any two statements; the list comprehension reads the *)
(* list and the assignment stores the filtered copy as two steps.          *)
(***************************************************************************)
MaxLimiterCalls == 3      \* check_rate_limit calls of a run
MaxLimiterMinutes == 15   \* minutes a run lasts

\* auth_rate_limiter and device_rate_limiter
Limiters == {"auth", "device"}
MaxAttemptsOf(limiter) == IF limiter = "auth" THEN AuthMaxAttempts ELSE DeviceMaxAttempts
WindowOf(limiter) == IF limiter = "auth" THEN AuthWindowMinutes ELSE DeviceWindowMinutes

Returned(c, accepted) ==
    [limiter |-> c.limiter, identifier |-> c.identifier, t |-> c.now,
     accepted |-> accepted]
Answer(c, status) ==
    [op |-> "check_rate_limit", limiter |-> c.limiter, identifier |-> c.identifier,
     t |-> c.now, status |-> status]

\* now = time.time()
check_rate_limit_call(p, limiter, identifier) ==
    /\ calls[p].pc = "idle"
    /\ calls' = [calls EXCEPT ![p] = [pc |-> "filter", limiter |-> limiter,
                                      identifier |-> identifier, now |-> now]]
    /\ UNCHANGED <<now, users, devices, device_schedules, telemetry, attempts, txn,
                   initial_schedule, limiter_log, resp>>

\* a comprehension that keeps every attempt
KeptAll(list, t, window_minutes) == list
\* [attempt_time for attempt_time in self.attempts[identifier]
\*  if now - attempt_time < self.window_seconds]
Kept(list, t, window_minutes) ==
    LET Recent(attempt_time) == t - attempt_time < window_minutes
    IN  SelectSeq(list, Recent)

check_rate_limit_filter(p) ==
    LET c == calls[p]
    IN  /\ c.pc = "filter"
        /\ calls' = [calls EXCEPT ![p] =
                        [pc |-> "store", limiter |-> c.limiter,
                         identifier |-> c.identifier, now |-> c.now,
                         kept |-> Kept(AttemptsOf(attempts[c.limiter], c.identifier),
                                       c.now, WindowOf(c.limiter))]]
        /\ UNCHANGED <<now, users, devices, device_schedules, telemetry, attempts,
                       txn, initial_schedule, limiter_log, resp>>

\* self.attempts[identifier] = ...
check_rate_limit_store(p) ==
    LET c == calls[p]
    IN  /\ c.pc = "store"
        /\ attempts' = [attempts EXCEPT ![c.limiter] =
                           WithAttempts(@, c.identifier, c.kept)]
        /\ calls' = [calls EXCEPT ![p] = [pc |-> "check", limiter |-> c.limiter,
                                          identifier |-> c.identifier, now |-> c.now]]
        /\ UNCHANGED <<now, users, devices, device_schedules, telemetry, txn,
                       initial_schedule, limiter_log, resp>>

\* if len(self.attempts[identifier]) >= self.max_attempts: raise HTTPException(429)
check_rate_limit_check(p) ==
    LET c == calls[p]
    IN  /\ c.pc = "check"
        /\ IF Len(AttemptsOf(attempts[c.limiter], c.identifier))
                 >= MaxAttemptsOf(c.limiter)
           THEN /\ calls' = [calls EXCEPT ![p] = IdleCall]
                /\ limiter_log' = Append(limiter_log, Returned(c, FALSE))
                /\ resp' = Answer(c, 429)
           ELSE /\ calls' = [calls EXCEPT ![p].pc = "append"]
                /\ UNCHANGED <<limiter_log, resp>>
        /\ UNCHANGED <<now, users, devices, device_schedules, telemetry, attempts,
                       txn, initial_schedule>>

\* self.attempts[identifier].append(now)
check_rate_limit_append(p) ==
    LET c == calls[p]
    IN  /\ c.pc = "append"
        /\ attempts' = [attempts EXCEPT ![c.limiter] =
                           WithAttempts(@, c.identifier,
                                        Append(AttemptsOf(@, c.identifier), c.now))]
        /\ calls' = [calls EXCEPT ![p] = IdleCall]
        /\ limiter_log' = Append(limiter_log, Returned(c, TRUE))
        /\ resp' = Answer(c, 200)
        /\ UNCHANGED <<now, users, devices, device_schedules, telemetry, txn,
                       initial_schedule>>

\* time passes
Wait(dt) ==
    /\ now + dt <= StartNow + MaxLimiterMinutes
    /\ now' = now + dt
    /\ UNCHANGED <<users, devices, device_schedules, telemetry, attempts, txn,
                   initial_schedule, calls, limiter_log, resp>>

\* the calls accepted before the run starts: none, or one short of max_attempts
\* of identifier u1, all made a minute ago
EarlierCalls ==
    {<<>>} \cup
    {[k \in 1..(MaxAttemptsOf(l) - 1) |->
         [limiter |-> l, identifier |-> "u1", t |-> StartNow - 1, accepted |-> TRUE]] :
       l \in Limiters}

InitLimiter ==
    /\ now = StartNow
    /\ users = InitialUsers
    /\ devices = InitialDevices
    /\ \E log \in EarlierCalls :
          /\ limiter_log = log
          /\ attempts = IF log = <<>> THEN NoAttempts
                        ELSE [NoAttempts EXCEPT ![log[1].limiter]["u1"] =
                                 [k \in Indices(log) |-> log[k].t]]
    /\ txn = [p \in Procs |-> IdleTxn]
    /\ device_schedules = {}
    /\ initial_schedule = device_schedules
    /\ calls = NoCalls
    /\ telemetry = <<>>
    /\ resp = NoResp

\* the calls of the run, returned or under way
CallsMade ==
    Cardinality({k \in Indices(limiter_log) : limiter_log[k].t >= StartNow})
        + Cardinality({p \in Threads : calls[p].pc # "idle"})

WaitMinutes == {5, 10}

\* one request at a time
NextLimiterSequential ==
    \/ \E p \in Threads, l \in Limiters, e \in Emails :
          /\ CallsMade < MaxLimiterCalls
          /\ \A q \in Threads : calls[q].pc = "idle"
          /\ check_rate_limit_call(p, l, e)
    \/ \E p \in Threads : check_rate_limit_filter(p)
    \/ \E p \in Threads : check_rate_limit_store(p)
    \/ \E p \in Threads : check_rate_limit_check(p)
    \/ \E p \in Threads : check_rate_limit_append(p)
    \/ \E dt \in WaitMinutes : Wait(dt)

SpecLimiterSequential == InitLimiter /\ [][NextLimiterSequential]_vars

\* requests on concurrently running threads
NextLimiter ==
    \/ \E p \in Threads, l \in Limiters, e \in Emails :
          CallsMade < MaxLimiterCalls /\ check_rate_limit_call(p, l, e)
    \/ \E p \in Threads : check_rate_limit_filter(p)
    \/ \E p \in Threads : check_rate_limit_store(p)
    \/ \E p \in Threads : check_rate_limit_check(p)
    \/ \E p \in Threads : check_rate_limit_append(p)
    \/ \E dt \in WaitMinutes : Wait(dt)

SpecLimiter == InitLimiter /\ [][NextLimiter]_vars

(***************************************************************************)
(* Claims about calculate_monthly_projection (SpecProjection).             *)
(***************************************************************************)
Max0(x) == IF x > 0 THEN x ELSE 0

IsProjection == resp.op = "calculate_monthly_projection"
RespSchedule == SchedulesOf(device_schedules, resp.device_id)
RespReadings ==
    {i \in Indices(telemetry) :
        /\ telemetry[i].device_id = resp.device_id
        /\ now - telemetry[i].timestamp <= 30 * 24 * 60}
RespTotal == SumFn([i \in RespReadings |-> telemetry[i].energy_usage], RespReadings)

\* sum over the blocks of max(0, end_hour - start_hour) x power, in 0.01 kWh
ExpectedWeekly(rows) ==
    SumFn([r \in rows |-> Max0(r.end_hour - r.start_hour) * r.power_consumption], rows)

\* C1: for a device with at least one schedule block the projection is
\* 4.33 x (sum over its blocks of max(0, end_hour - start_hour) x power), whatever
\* telemetry the device has; blocks with end_hour <= start_hour contribute exactly
\* 0; the single block {1, 18, 22, 3.5 kW} gives weekly 14.0 and monthly 60.62 kWh.
C1_ScheduleProjection ==
    (IsProjection /\ RespSchedule # {}) =>
        LET active == {r \in RespSchedule : r.end_hour > r.start_hour}
        IN  /\ resp.value.num * 100 = 433 * ExpectedWeekly(RespSchedule) * resp.value.den
            /\ resp.value.num * 100 = 433 * ExpectedWeekly(active) * resp.value.den
            /\ ({RowBlock(r) : r \in RespSchedule} = {Block(1, 18, 22, 350)}
                    /\ Cardinality(RespSchedule) = 1)
                 => /\ WeeklyKwh(RespSchedule) = 1400
                    /\ resp.value.num * 100 = 6062 * resp.value.den * 100

\* C1 witness: a projection of a device that has telemetry and two blocks, the
\* 18-22 block of 3.5 kW and a block with end_hour <= start_hour
C1_Witness ==
    /\ IsProjection
    /\ \E r \in RespSchedule : RowBlock(r) = Block(1, 18, 22, 350)
    /\ \E r \in RespSchedule : r.end_hour <= r.start_hour
    /\ RespReadings # {}
    /\ resp.value.num = 606200 /\ resp.value.den = 100

\* C5: calculate_monthly_projection returns a value >= 0 in every reachable
\* stored state (record_telemetry accepts negative energy_usage values).
C5_NonNegative == IsProjection => resp.value.num >= 0

\* the schedule with row r replaced by block b
Replaced(rows, r, b) == (rows \ {r}) \cup {Row(r.id, r.device_id, b)}
Span(b) == b.end_hour - b.start_hour
AltBlocks ==
    {Block(1, s, e, p) : s \in {0, 18, 22, 23}, e \in {0, 18, 22, 23}, p \in {6, 350, 1000}}

Hourly(I) ==
    /\ \A i \in I, j \in I : i # j => telemetry[i].timestamp # telemetry[j].timestamp
    /\ \A i \in I :
        \/ \A j \in I : telemetry[j].timestamp <= telemetry[i].timestamp
        \/ \E j \in I : telemetry[j].timestamp = telemetry[i].timestamp + 60

IsTimeline == resp.op = "get_consumption_timeline" /\ resp.status = 200
IsTimelineOf(copy, view) == IsTimeline /\ resp.copy = copy /\ resp.view = view

\* the schedule rows and the readings of the caller's devices
CallerRows == {r \in device_schedules : devices[r.device_id].user_id = resp.user}
CallerReadings(lookback) ==
    {i \in Indices(telemetry) :
        /\ devices[telemetry[i].device_id].user_id = resp.user
        /\ now - telemetry[i].timestamp <= lookback}

\* C2: in the daily view every forecast entry with timestamp T has usage equal to
\* the summed power of the caller's blocks whose day_of_week is (T.weekday() + 1)
\* mod 7 and whose interval has start_hour <= hour-of-day(T) < end_hour.
C2_DailyForecastUsage ==
    IsTimelineOf("ai_service", "daily") =>
        \A k \in Indices(resp.forecast) :
            LET T == resp.forecast[k].timestamp
                hour_of_day == (T % (24 * 60)) \div 60
                on == {r \in CallerRows :
                          /\ r.day_of_week = (((T \div (24 * 60)) % 7) + 1) % 7
                          /\ r.start_hour <= hour_of_day /\ hour_of_day < r.end_hour}
            IN  resp.forecast[k].usage.num
                    = SumFn([r \in on |-> r.power_consumption], on)
                          * resp.forecast[k].usage.den

\* bucket width and lookback of the spec's table, in minutes
TableBucket(view) == IF view = "daily" THEN 60 ELSE 24 * 60
TableLookback(view) ==
    CASE view = "daily" -> 30 * 24 * 60
      [] view = "weekly" -> 12 * 7 * 24 * 60
      [] view = "monthly" -> 365 * 24 * 60

\* C3: for every view the historical series has exactly one entry per bucket that
\* holds a reading, within the lookback, of a device of the caller; its usage is
\* the sum of exactly those readings; buckets without readings are absent; the
\* entries are in strictly ascending bucket order.
C3_HistoricalSeries ==
    (IsTimeline /\ resp.copy = "ai_service") =>
        LET H == resp.historical
            w == TableBucket(resp.view)
            mine == CallerReadings(TableLookback(resp.view))
            BucketOf(i) == telemetry[i].timestamp - (telemetry[i].timestamp % w)
        IN  /\ \A k \in Indices(H) : k < Len(H) => H[k].timestamp < H[k + 1].timestamp
            /\ {H[k].timestamp : k \in Indices(H)} = {BucketOf(i) : i \in mine}
            /\ \A k \in Indices(H) :
                LET J == {i \in mine : BucketOf(i) = H[k].timestamp}
                IN  /\ H[k].usage.den = 1
                    /\ H[k].usage.num = SumFn([i \in J |-> telemetry[i].energy_usage], J)

\* C3 witness: a daily series of one entry while another user's device has a
\* reading inside the lookback
C3_Witness ==
    /\ IsTimelineOf("ai_service", "daily")
    /\ Len(resp.historical) = 1
    /\ \E i \in Indices(telemetry) :
          /\ devices[telemetry[i].device_id].user_id # resp.user
          /\ now - telemetry[i].timestamp <= 30 * 24 * 60

\* C8 as stated: in the daily view no historical entry has a bucket timestamp
\* older than now - 30 days.
C8_NotOlderThan30Days ==
    (IsTimeline /\ resp.view = "daily") =>
        \A k \in Indices(resp.historical) :
            resp.historical[k].timestamp >= now - 30 * 24 * 60

\* C8 amended: in the daily view no historical entry has a bucket timestamp older
\* than the start of the hour that contains now - 30 days, so it precedes
\* now - 30 days by less than one hour.
C8_NotOlderThanHourOf30Days ==
    (IsTimeline /\ resp.view = "daily") =>
        \A k \in Indices(resp.historical) :
            /\ resp.historical[k].timestamp
                   >= (now - 30 * 24 * 60) - ((now - 30 * 24 * 60) % 60)
            /\ resp.historical[k].timestamp + 60 > now - 30 * 24 * 60

\* C8 witness: a daily series with an entry that starts before now - 30 days
C8_Witness ==
    /\ IsTimelineOf("ai_service", "daily")
    /\ \E k \in Indices(resp.historical) :
          resp.historical[k].timestamp < now - 30 * 24 * 60

\* C9: in the daily view no forecast entry has a timestamp before now.
C9_ForecastNotBeforeNow ==
    (IsTimeline /\ resp.view = "daily") =>
        \A k \in Indices(resp.forecast) : resp.forecast[k].timestamp >= now

\* C9 witness: a daily forecast made in the last hour of a day, which has no
\* entry left for that day
C9_Witness ==
    /\ IsTimelineOf("ai_service", "daily")
    /\ (now % (24 * 60)) \div 60 = 23
    /\ Len(resp.forecast) = 6 * 24
    /\ resp.forecast[1].timestamp = now + 24 * 60

ForecastTimes == [k \in Indices(resp.forecast) |-> resp.forecast[k].timestamp]

\* C10 as stated: daily uses hour buckets over 30 days and hourly forecast
\* entries within the next 7 days; weekly uses day buckets over 12 weeks and
\* entries for the next 4 weeks; monthly uses day buckets over 12 months and
\* entries for the next 3 months.
C10_ViewTable ==
    IsTimeline =>
        CASE resp.view = "daily" ->
                /\ resp.historical = Historical(telemetry, resp.user, now, "hour", "30 days")
                /\ \A k \in Indices(resp.forecast) :
                      /\ now < ForecastTimes[k] /\ ForecastTimes[k] <= now + 7 * 24 * 60
                      /\ k > 1 => ForecastTimes[k] = ForecastTimes[k - 1] + 60
          [] resp.view = "weekly" ->
                /\ resp.historical = Historical(telemetry, resp.user, now, "day", "12 weeks")
                /\ ForecastTimes = [k \in 1..4 |-> now + k * 7 * 24 * 60]
          [] resp.view = "monthly" ->
                /\ resp.historical = Historical(telemetry, resp.user, now, "day", "12 months")
                /\ ForecastTimes = [k \in 1..3 |-> now + k * 30 * 24 * 60]

\* C10 amended: the table holds of backend/ai_service/main.py, whose daily
\* forecast runs hourly from now + (now.hour + 1) hours to now + 6 days 23 hours;
\* backend/ai-service/main.py uses day buckets over 15 days and 15 daily entries
\* (noon of now + 1 .. 15 days) for daily, week buckets over 12 weeks and 4 entries
\* for weekly, month buckets over 12 months and 3 entries for monthly.
C10_ViewTables ==
    IsTimeline =>
        LET hour == (now % (24 * 60)) \div 60
            Hist(unit, past) == Historical(telemetry, resp.user, now, unit, past)
        IN  CASE resp.copy = "ai_service" /\ resp.view = "daily" ->
                    /\ resp.historical = Hist("hour", "30 days")
                    /\ ForecastTimes = [k \in 1..(7 * 24 - hour - 1) |-> now + (hour + k) * 60]
              [] resp.copy = "ai_service" /\ resp.view = "weekly" ->
                    /\ resp.historical = Hist("day", "12 weeks")
                    /\ ForecastTimes = [k \in 1..4 |-> now + k * 7 * 24 * 60]
              [] resp.copy = "ai_service" /\ resp.view = "monthly" ->
                    /\ resp.historical = Hist("day", "12 months")
                    /\ ForecastTimes = [k \in 1..3 |-> now + k * 30 * 24 * 60]
              [] resp.copy = "ai-service" /\ resp.view = "daily" ->
                    /\ resp.historical = Hist("day", "15 days")
                    /\ ForecastTimes =
                          [k \in 1..15 |->
                              now - (now % (24 * 60)) + k * 24 * 60 + 12 * 60 + (now % 60)]
              [] resp.copy = "ai-service" /\ resp.view = "weekly" ->
                    /\ resp.historical = Hist("week", "12 weeks")
                    /\ ForecastTimes = [k \in 1..4 |-> now + k * 7 * 24 * 60]
              [] resp.copy = "ai-service" /\ resp.view = "monthly" ->
                    /\ resp.historical = Hist("month", "12 months")
                    /\ ForecastTimes = [k \in 1..3 |-> now + k * 30 * 24 * 60]

\* C10 witness: the later copy's daily view with one day bucket that sums two
\* readings and 15 forecast entries
C10_Witness ==
    /\ IsTimelineOf("ai-service", "daily")
    /\ Len(resp.historical) = 1 /\ Len(telemetry) = 2
    /\ resp.historical[1].timestamp % (24 * 60) = 0
    /\ \A i \in Indices(telemetry) :
          /\ telemetry[i].device_id = "d1"
          /\ telemetry[i].timestamp % (24 * 60) # 0
    /\ Len(resp.forecast) = 15

(***************************************************************************)
(* Claims about the schedule replace (SpecTxn).                            *)
(***************************************************************************)
\* the schedules a reader of device d may be shown: the one the run started with
\* and the list of every replace of d that got past its device check
Versions(d) ==
    {SchedulesOf(initial_schedule, d)}
        \cup {RequestRows(p, d, txn[p].schedule) :
                 p \in {q \in Writers : /\ txn[q].device_id = d
                                        /\ txn[q].pc \notin {"idle", "select_device"}}}

\* C4: a schedule replace is atomic for readers: every read of d's schedule by
\* another request, while a replace runs and after it ends, sees the complete
\* previous block set or exactly S, and after a successful call the stored set is
\* exactly S.
C4_AtomicReplace ==
    /\ (resp.op = "get_device_schedule" /\ resp.status = 200) =>
          resp.schedule \in {ScheduleList(v) : v \in Versions(resp.device_id)}
    /\ IsProjection =>
          resp.value \in {monthly_projection(v, telemetry, resp.device_id, now) :
                             v \in Versions(resp.device_id)}
    /\ (resp.op = "set_device_schedule" /\ resp.status = 200) =>
          ScheduleList(SchedulesOf(device_schedules, txn[resp.proc].device_id))
              = ScheduleList(RequestRows(resp.proc, txn[resp.proc].device_id,
                                         txn[resp.proc].schedule))

(***************************************************************************)
(* Claims about the telemetry service (SpecDevices).                       *)
(***************************************************************************)
\* the readings of the devices in ds, in the order they were stored
ReadingsOfDevices(readings, ds) ==
    LET Of(r) == r.device_id \in ds IN SelectSeq(readings, Of)
IsPrefix(a, b) == Len(a) <= Len(b) /\ SubSeq(b, 1, Len(a)) = a
\* a step that ends a request of the endpoint op which runs in one step
Served(op) == resp'.op = op /\ txn' = txn /\ (resp' # resp \/ telemetry' # telemetry)

\* C15: telemetry is append-only.  In every step the readings of the devices
\* that exist before and after it are kept, unmodified and in order; a
\* record_telemetry step adds exactly one reading, stamped with the clock; every
\* step other than record_telemetry, create_device and delete_device (schedule
\* replace, device update, reads, rejected requests) leaves telemetry as it was.
C15_AppendOnly ==
    [][/\ LET kept == DOMAIN devices \cap DOMAIN devices'
          IN  IsPrefix(ReadingsOfDevices(telemetry, kept),
                       ReadingsOfDevices(telemetry', kept))
       /\ Served("record_telemetry") =>
            /\ Len(telemetry') = Len(telemetry) + 1
            /\ SubSeq(telemetry', 1, Len(telemetry)) = telemetry
            /\ telemetry'[Len(telemetry')].timestamp = now
       /\ (~Served("record_telemetry") /\ ~Served("create_device")
              /\ ~Served("delete_device")) => telemetry' = telemetry]_vars

\* C15 witness: a reading recorded after a schedule replace and a device update,
\* with the reading stored before them still in place
C15_Witness ==
    /\ resp.op = "record_telemetry"
    /\ Len(telemetry) = 2
    /\ telemetry[1] = [timestamp |-> StartNow - Hrs(2), device_id |-> "d1",
                       energy_usage |-> 750]
    /\ telemetry[2].timestamp = now
    /\ SchedulesOf(device_schedules, "d1") # SchedulesOf(initial_schedule, "d1")
    /\ \E d \in DOMAIN devices : devices[d].name = "tv"

\* the device id does not exist or the device belongs to another user
NotOwned(d, user_id) == d \notin DOMAIN devices \/ devices[d].user_id # user_id
StoredUnchanged == UNCHANGED <<devices, device_schedules, telemetry>>

\* C17 as claimed: a request of update_device, set_device_schedule,
\* get_device_schedule or delete_device for a device id that does not exist or
\* belongs to another user ends with 404 and leaves devices, schedule blocks and
\* readings unchanged.
C17_NotFound ==
    [][\A t \in ValidTokens, d \in RequestedIds :
          NotOwned(d, t.user_id) =>
            /\ ((\E u \in DeviceUpdates : update_device(t, d, u)) \/ delete_device(t, d))
                  => (resp'.status = 404 /\ StoredUnchanged)
            /\ (\E s \in Requests, p \in Writers :
                    set_device_schedule_begin(p, d, s, t.user_id))
                  => (resp' = resp /\ StoredUnchanged)
            /\ (\E p \in Writers :
                    /\ txn[p].device_id = d
                    /\ set_device_schedule_select_device(p, t.user_id))
                  => (resp'.status = 404 /\ StoredUnchanged)
            /\ (\E p \in Readers : get_device_schedule_select_device(p, d, t.user_id))
                  => (resp'.status = 404 /\ StoredUnchanged)]_vars

\* C17 as amended: such a request ends with 404, or with 429 when the rate
\* limiter of the device endpoints has max_attempts requests of the caller in its
\* window (get_device_schedule is not rate limited); either way devices, schedule
\* blocks and readings are unchanged.
C17_NotFoundOrLimited ==
    [][\A t \in ValidTokens, d \in RequestedIds :
          NotOwned(d, t.user_id) =>
            LET limited == Len(Pruned(AttemptsOf(attempts.device, t.user_id), now))
                               >= DeviceMaxAttempts
                expected == IF limited THEN 429 ELSE 404
            IN  /\ ((\E u \in DeviceUpdates : update_device(t, d, u))
                        \/ delete_device(t, d))
                      => (resp'.status = expected /\ StoredUnchanged)
                /\ (\E s \in Requests, p \in Writers :
                        set_device_schedule_begin(p, d, s, t.user_id))
                      => /\ StoredUnchanged
                         /\ IF limited THEN resp'.status = 429 ELSE resp' = resp
                /\ (\E p \in Writers :
                        /\ txn[p].device_id = d
                        /\ set_device_schedule_select_device(p, t.user_id))
                      => (resp'.status = 404 /\ StoredUnchanged)
                /\ (\E p \in Readers :
                        get_device_schedule_select_device(p, d, t.user_id))
                      => (resp'.status = 404 /\ StoredUnchanged)]_vars

\* C17 witness: delete_device of another user's device was answered with 404
\* and the device, its block and its reading are still there
C17_Witness ==
    /\ resp = [op |-> "delete_device", status |-> 404]
    /\ devices = InitialDevices
    /\ device_schedules = initial_schedule
    /\ Len(telemetry) >= 1

\* C18: a request of create_device, set_device_schedule, delete_device or
\* record_telemetry that carries no valid bearer token ends with 401 and stores
\* nothing.
C18_RejectsUnauthenticated ==
    [][\A t \in DeviceTokens :
          t.kind # "bearer" =>
            ((\/ \E device \in NewDevices : create_device(t, device)
              \/ \E d \in RequestedIds : delete_device(t, d)
              \/ reject_unauthenticated("set_device_schedule", t)
              \/ \E d \in DeviceIds, u \in UsageSet : record_telemetry_request(t, d, u))
                => (resp'.status = 401 /\ StoredUnchanged))]_vars

(***************************************************************************)
(* Claims about registration and the AI service's endpoints (SpecAccounts).*)
(***************************************************************************)
\* C11: in every timeline response each historical entry has is_forecast =
\* false, each forecast entry has is_forecast = true, and every historical
\* timestamp is strictly earlier than every forecast timestamp.
C11_DisjointHalves ==
    (resp.op = "get_consumption_timeline" /\ resp.status = 200) =>
        /\ \A i \in Indices(resp.historical) : ~resp.historical[i].is_forecast
        /\ \A j \in Indices(resp.forecast) : resp.forecast[j].is_forecast
        /\ \A i \in Indices(resp.historical), j \in Indices(resp.forecast) :
              resp.historical[i].timestamp < resp.forecast[j].timestamp

\* the devices of the user rows with this email
OwnedBy(email) ==
    {d \in DOMAIN devices : \E u \in users : u.email = email /\ devices[d].user_id = u.id}
\* the readings of a device, and those of them no other is later than
ReadingsOf(d) == {i \in Indices(telemetry) : telemetry[i].device_id = d}
MostRecent(d) ==
    {i \in ReadingsOf(d) :
        \A j \in ReadingsOf(d) : telemetry[j].timestamp <= telemetry[i].timestamp}
IsDashboard == resp.op = "get_dashboard_data" /\ resp.status = 200

\* a request was answered in this step by the endpoint op
Answered(op) == resp = NoResp /\ resp'.op = op

\* the read endpoints leave users, devices, schedule blocks, readings and the
\* rate limiters as they are; handle_query, which calls
\* calculate_monthly_projection, leaves the four tables as they are
ReadOnly ==
    /\ (Answered("get_consumption_timeline") \/ Answered("get_dashboard_data"))
          => UNCHANGED <<users, devices, device_schedules, telemetry, attempts>>
    /\ Answered("handle_query")
          => UNCHANGED <<users, devices, device_schedules, telemetry>>

\* whichever row the database returns as the latest reading of a device, the
\* dashboard request answered in this step gets the response it got
SameOutput ==
    (Answered("get_dashboard_data") /\ resp'.status = 200) =>
        \A q \in Picks :
            resp' = IF resp'.copy = "ai_service" THEN DashboardData(resp'.email, q)
                    ELSE get_user_data(resp'.email, q)

NoTiedLatest(email) ==
    \A d \in OwnedBy(email) :
        LET times == {telemetry[i].timestamp : i \in ReadingsOf(d)}
            latest == CHOOSE t \in times : \A u \in times : u <= t
        IN  times # {} =>
                Cardinality({telemetry[i].energy_usage :
                                i \in {j \in ReadingsOf(d) :
                                          telemetry[j].timestamp = latest}}) = 1

C13_EveryDeviceOnce ==
    IsDashboard =>
        /\ {resp.current_usage[k].device : k \in Indices(resp.current_usage)}
               = OwnedBy(resp.email)
        /\ Len(resp.current_usage) = Cardinality(OwnedBy(resp.email))
        /\ \A k \in Indices(resp.current_usage) :
              LET d == resp.current_usage[k].device
                  usage == resp.current_usage[k].usage
              IN  IF ReadingsOf(d) = {} THEN usage = 0
                  ELSE \E i \in MostRecent(d) : usage = telemetry[i].energy_usage

\* C13 witness: the dashboard of u1 lists d1 with the usage of its latest reading
\* and d3, which has no reading, with 0
C13_Witness ==
    /\ IsDashboard /\ resp.email = "u1"
    /\ telemetry = UsageHistory(now)
    /\ Len(resp.current_usage) = 2
    /\ \E k \in Indices(resp.current_usage) :
          resp.current_usage[k].device = "d1" /\ resp.current_usage[k].usage = 800
    /\ \E k \in Indices(resp.current_usage) :
          resp.current_usage[k].device = "d3" /\ resp.current_usage[k].usage = 0

\* the sum of the readings of the email's devices taken at or after since
OwnedSum(email, since) ==
    LET I == {i \in Indices(telemetry) :
                 /\ telemetry[i].device_id \in OwnedBy(email)
                 /\ telemetry[i].timestamp >= since}
    IN  SumFn([i \in I |-> telemetry[i].energy_usage], I)

\* C14: in a dashboard response today_total is the sum of the user's readings
\* since the start of the calendar day, month_total the sum since the start of
\* the calendar month, and estimated_monthly_cost is month_total times 0.12.
C14_CalendarTotals ==
    IsDashboard =>
        /\ resp.today_total = OwnedSum(resp.email, DateTruncDay(now))
        /\ resp.month_total = OwnedSum(resp.email, DateTruncMonth(now))
        /\ resp.estimated_monthly_cost.num * 100
               = resp.month_total * 12 * resp.estimated_monthly_cost.den

\* C16: a request of get_consumption_timeline, of get_dashboard_data or of
\* handle_query with a DATA_QUERY intent, made with an email that has no user
\* row, is answered with 404.
C16_UnknownUserNotFound ==
    [][\A e \in AccountCallers :
          (\A u \in users : u.email # e) =>
            ((\/ \E v \in Views : get_consumption_timeline(v, e)
              \/ \E v \in Views : get_consumption_timeline_later(v, e)
              \/ \E p \in Picks : get_dashboard_data(e, p)
              \/ \E p \in Picks : get_dashboard_data_later(e, p)
              \/ \E q \in QueryTypes : handle_query(e, "DATA_QUERY", q))
                => resp'.status = 404)]_vars

\* a register_user request of either auth service for this email
Registers(e) ==
    \/ \E draw \in Draws : register_user(e, InitialPassword, "s1", draw)
    \/ \E draw \in Draws, o \in DeviceServiceOutcomes :
          register_user_later(e, InitialPassword, "s1", draw, o)
NothingCreated == UNCHANGED <<users, devices, device_schedules, telemetry>>
UniqueEmails == \A u \in users, w \in users : u.email = w.email => u = w

\* C19 as claimed: register_user for an email that has a user row is answered
\* with 400 and creates nothing, and no two user rows share an email.
C19_DuplicateRejected ==
    [][/\ UniqueEmails'
       /\ \A e \in RegisterEmails :
             ((\E u \in users : u.email = e) /\ Registers(e))
                => (resp'.status = 400 /\ NothingCreated)]_vars

\* C19 as amended: such a request is answered with 400, or by the later auth
\* service with 429 when its rate limiter has max_attempts requests of the email
\* in its window, and creates nothing; no two user rows share an email.
C19_DuplicateRejectedOrLimited ==
    [][/\ UniqueEmails'
       /\ \A e \in RegisterEmails :
             ((\E u \in users : u.email = e) /\ Registers(e))
                => /\ NothingCreated
                   /\ \/ resp'.status = 400
                      \/ /\ resp'.status = 429
                         /\ resp'.copy = "auth-service"
                         /\ Len(WindowPruned(AttemptsOf(attempts.auth, e), now,
                                             AuthWindowMinutes))
                                >= AuthMaxAttempts]_vars

\* C19 witness: the email registered in this run was registered again and the
\* request was answered with 400, with one user row for the email
C19_Witness ==
    /\ resp.op = "register_user" /\ resp.status = 400 /\ resp.email = "u3"
    /\ Cardinality({u \in users : u.email = "u3"}) = 1
    /\ Cardinality(users) = 3

\* C20: after a register_user answered with 201 the new user owns exactly 6
\* devices and the response reports devices_created = 6.
C20_SixDefaultDevices ==
    (resp.op = "register_user" /\ resp.status = 201) =>
        /\ Cardinality({d \in DOMAIN devices : devices[d].user_id = resp.user_id}) = 6
        /\ resp.devices_created = 6

\* a login_user request of either auth service with these credentials
LogsIn(e, password) == login_user(e, password) \/ login_user_later(e, password)
\* what the credentials determine: 404 without a user row, 401 with a password
\* other than the one the email was registered with, else 200 with a bearer
\* token for the email and the id of its row
ByCredentials(r, e, password) ==
    IF \A u \in users : u.email # e THEN r.status = 404
    ELSE IF password # InitialPassword THEN r.status = 401
    ELSE /\ r.status = 200 /\ r.token_type = "bearer"
         /\ r.access_token.sub = e
         /\ \E u \in users : u.email = e /\ u.id = r.access_token.user_id

\* C21 as claimed: every login_user request is answered as its credentials
\* determine.
C21_LoginByCredentials ==
    [][\A e \in AccountCallers, password \in Passwords :
          LogsIn(e, password) => ByCredentials(resp', e, password)]_vars

\* C21 as amended: a login_user request is answered as its credentials
\* determine, unless the later auth service finds max_attempts requests of the
\* email in the window of its rate limiter and answers 429.
C21_LoginByCredentialsOrLimited ==
    [][\A e \in AccountCallers, password \in Passwords :
          LogsIn(e, password) =>
            \/ ByCredentials(resp', e, password)
            \/ /\ resp'.status = 429 /\ resp'.copy = "auth-service"
               /\ Len(WindowPruned(AttemptsOf(attempts.auth, e), now,
                                   AuthWindowMinutes)) >= AuthMaxAttempts]_vars

\* C21 witness: the user registered in this run has logged in and holds a
\* token with its email and the id of its row
C21_Witness ==
    /\ resp.op = "login_user" /\ resp.status = 200
    /\ resp.access_token = Bearer("u3", "id1")
    /\ \E u \in users : u.email = "u3" /\ u.id = "id1"

\* C22: every stored schedule block has day_of_week in 0..6, start_hour and
\* end_hour in 0..23 and power > 0, and a set_device_schedule request with a
\* block outside these ranges is not served and leaves the stored blocks as they
\* are.
C22_BlocksInRange ==
    [][/\ \A r \in device_schedules' :
             /\ 0 <= r.day_of_week /\ r.day_of_week <= 6
             /\ 0 <= r.start_hour /\ r.start_hour <= 23
             /\ 0 <= r.end_hour /\ r.end_hour <= 23
             /\ r.power_consumption > 0
       /\ \A t \in ValidTokens, s \in ScheduleRequests :
             (/\ \E k \in Indices(s) : s[k] \in InvalidBlocks
              /\ \/ set_device_schedule_rejected(t, s)
                 \/ \E d \in DeviceIds : set_device_schedule_legacy(t, d, s))
                => (resp'.status # 200 /\ UNCHANGED device_schedules)]_vars

\* a day's total at time T: (end_hour - start_hour) x power over the caller's
\* blocks whose day_of_week is (weekday + 1) mod 7 of that day
DayTotal(T) ==
    LET weekday == (T \div (24 * 60)) % 7
        on == {r \in CallerRows : r.day_of_week = (weekday + 1) % 7}
    IN  SumFn([r \in on |-> (r.end_hour - r.start_hour) * r.power_consumption], on)

\* entry k of the forecast stands at now + k periods of `days` days and its usage
\* is the average of the `days` daily totals from there on
AveragesDays(k, days) ==
    LET T == now + k * days * 24 * 60
        total == SumFn([d \in 0..(days - 1) |-> DayTotal(T + d * 24 * 60)], 0..(days - 1))
    IN  /\ resp.forecast[k].timestamp = T
        /\ resp.forecast[k].is_forecast
        /\ resp.forecast[k].usage.num * days = total * resp.forecast[k].usage.den

ForecastOf(rows) ==
    CASE resp.view = "daily" /\ resp.copy = "ai_service" -> DailyForecast(rows, now)
      [] resp.view = "daily" /\ resp.copy = "ai-service" -> DailyForecast15(rows, now)
      [] resp.view = "weekly" -> WeeklyForecast(rows, now)
      [] resp.view = "monthly" -> MonthlyForecast(rows, now)

\* C24: in every view a block with end_hour <= start_hour contributes zero to
\* every forecast entry (the forecast is the one of the remaining blocks), and no
\* forecast entry has negative usage.
C24_EmptyBlocksContributeZero ==
    IsTimeline =>
        /\ resp.forecast = ForecastOf({r \in CallerRows : r.end_hour > r.start_hour})
        /\ \A k \in Indices(resp.forecast) : resp.forecast[k].usage.num >= 0

\* the tables of the database other than devices
OtherTables == <<users, device_schedules, telemetry>>

\* what an update_device request for device d with body u may change: the
\* fields of d that u carries, which then hold the values of u
OnlyPresentFields(d, u) ==
    /\ UNCHANGED OtherTables
    /\ DOMAIN devices' = DOMAIN devices
    /\ \A x \in DOMAIN devices : x # d => devices'[x] = devices[x]
    /\ d \in DOMAIN devices =>
          /\ devices'[d].user_id = devices[d].user_id
          /\ devices'[d].room = devices[d].room
          /\ devices'[d].name \in {devices[d].name, u.name}
          /\ devices'[d].power_rating \in {devices[d].power_rating, u.power_rating}
          /\ u.name = "" => devices'[d].name = devices[d].name
          /\ u.power_rating = 0 => devices'[d].power_rating = devices[d].power_rating
          /\ resp'.status = 200 =>
                /\ u.name # "" => devices'[d].name = u.name
                /\ u.power_rating # 0 => devices'[d].power_rating = u.power_rating

\* only update_device changes the rated power of an existing device, and
\* nothing changes its owner
RatedPowerKept ==
    \A d \in DOMAIN devices \cap DOMAIN devices' :
        /\ devices'[d].user_id = devices[d].user_id
        /\ devices'[d].power_rating # devices[d].power_rating
              => resp'.op = "update_device" /\ resp'.status = 200

EmptyUpdate == [name |-> "", power_rating |-> 0]

\* C25 as stated: update_device changes only the fields present in the request,
\* of the addressed device, and nothing else; a request with neither field
\* changes no stored state and still succeeds; nothing else changes a rated power
\* and nothing changes an owner.
C25_UpdateOnlyPresent ==
    [][/\ \A t \in DeviceTokens, d \in RequestedIds, u \in DeviceUpdates :
             update_device(t, d, u) => OnlyPresentFields(d, u)
       /\ \A t \in ValidTokens, d \in DOMAIN devices :
             (Owns(d, get_current_user_id(t)) /\ update_device(t, d, EmptyUpdate))
                => (resp'.status = 200 /\ UNCHANGED devices)
       /\ RatedPowerKept]_vars

\* C25: the same, the request with neither field succeeding unless the device
\* rate limiter answers 429 because the caller has 20 attempts in its window.
C25_UpdateOnlyPresentOrLimited ==
    [][/\ \A t \in DeviceTokens, d \in RequestedIds, u \in DeviceUpdates :
             update_device(t, d, u) => OnlyPresentFields(d, u)
       /\ \A t \in ValidTokens, d \in DOMAIN devices :
             (Owns(d, get_current_user_id(t)) /\ update_device(t, d, EmptyUpdate))
                => /\ UNCHANGED devices
                   /\ resp'.status =
                        LET made == AttemptsOf(attempts.device, get_current_user_id(t))
                            recent == {k \in Indices(made) :
                                          now - made[k] < DeviceWindowMinutes}
                        IN  IF Cardinality(recent) >= DeviceMaxAttempts
                            THEN 429 ELSE 200
       /\ RatedPowerKept]_vars

\* C25 witness: device d1 has been renamed while its rated power is the one it
\* started with
C25_Witness ==
    /\ resp = [op |-> "update_device", status |-> 200]
    /\ "d1" \in DOMAIN devices
    /\ devices["d1"].name = "tv"
    /\ devices["d1"].power_rating = InitialDevices["d1"].power_rating

(***************************************************************************)
(* Claims about RateLimiter (SpecLimiterSequential, SpecLimiter).          *)
(***************************************************************************)
\* the accepted calls of `log` for the identifier whose time lies within the
\* limiter's window before t
AcceptedWithin(log, limiter, identifier, t) ==
    {k \in Indices(log) :
        /\ log[k].limiter = limiter /\ log[k].identifier = identifier
        /\ log[k].accepted
        /\ log[k].t <= t /\ t - log[k].t < WindowOf(limiter)}

\* the recorded list of the identifier
Recorded(a, limiter, identifier) ==
    IF identifier \in DOMAIN a[limiter] THEN a[limiter][identifier] ELSE <<>>

\* C26: for sequential calls, check_rate_limit(id) at time t is rejected with 429
\* exactly when at least max_attempts previously accepted calls for id have a
\* time within the window before t; a rejected call records nothing, every
\* recorded time being the time of an accepted call; the recorded list never
\* exceeds max_attempts entries; and a call changes the list of its own
\* identifier only.
C26_SequentialLimiter ==
    [][/\ limiter_log' # limiter_log =>
             LET c == limiter_log'[Len(limiter_log')]
                 prior == AcceptedWithin(limiter_log, c.limiter, c.identifier, c.t)
             IN  /\ ~c.accepted <=> Cardinality(prior) >= MaxAttemptsOf(c.limiter)
                 /\ resp'.status = IF c.accepted THEN 200 ELSE 429
                 /\ ~c.accepted => attempts' = attempts
       /\ \A l \in Limiters, e \in Emails :
             LET list == Recorded(attempts', l, e)
             IN  /\ Len(list) <= MaxAttemptsOf(l)
                 /\ \A k \in Indices(list) :
                       \E j \in Indices(limiter_log') :
                           limiter_log'[j] = [limiter |-> l, identifier |-> e,
                                              t |-> list[k], accepted |-> TRUE]
                 /\ list # Recorded(attempts, l, e) =>
                       \E p \in Threads :
                           /\ calls[p].pc # "idle"
                           /\ calls[p].limiter = l /\ calls[p].identifier = e]_vars

\* C26 witness: a call was rejected and a later call for the same identifier,
\* made once the window had passed, was accepted
C26_Witness ==
    \E j \in Indices(limiter_log), k \in Indices(limiter_log) :
        /\ j < k
        /\ ~limiter_log[j].accepted /\ limiter_log[k].accepted
        /\ limiter_log[j].limiter = limiter_log[k].limiter
        /\ limiter_log[j].identifier = limiter_log[k].identifier

\* C27: with the calls of concurrently running threads interleaved, at most
\* max_attempts calls for an identifier are accepted within one window, and no
\* accepted attempt that is still inside the window is missing from the
\* recorded list.
C27_ConcurrentLimiter ==
    \A k \in Indices(limiter_log) :
        LET c == limiter_log[k]
            same == {j \in Indices(limiter_log) : limiter_log[j] = c}
            list == Recorded(attempts, c.limiter, c.identifier)
        IN  c.accepted =>
               /\ Cardinality(AcceptedWithin(limiter_log, c.limiter, c.identifier, c.t))
                     <= MaxAttemptsOf(c.limiter)
               /\ now - c.t < WindowOf(c.limiter) =>
                     Cardinality({i \in Indices(list) : list[i] = c.t})
                         >= Cardinality(same)

\* request p of set_device_schedule has committed its transaction
Succeeded(p) ==
    /\ txn[p].pc = "done"
    /\ txn[p].device_id \in DOMAIN devices
    /\ devices[txn[p].device_id].user_id = txn[p].user_id

\* C28: when two set_device_schedule requests for the same device, with block
\* lists S1 and S2, have both succeeded, each in its own transaction, the stored
\* schedule of the device is exactly S1 or exactly S2.
C28_OneOfTheTwo ==
    \A p \in Writers, q \in Writers :
        (p # q /\ Succeeded(p) /\ Succeeded(q) /\ txn[p].device_id = txn[q].device_id) =>
            LET d == txn[p].device_id
            IN  ScheduleList(SchedulesOf(device_schedules, d))
                    \in {ScheduleList(RequestRows(p, d, txn[p].schedule)),
                         ScheduleList(RequestRows(q, d, txn[q].schedule))}

(***************************************************************************)
(* Claims about handle_query (SpecQuery).                                  *)
(***************************************************************************)
\* C29: in the answer of handle_query to the SUM query over all devices, the
\* reported number of days remaining in the month is never negative.
C29_DaysRemainingNonNegative ==
    (resp.op = "handle_query" /\ resp.status = 200
        /\ resp.summary = "Monthly Energy Forecast") => resp.days_remaining >= 0

(***************************************************************************)
(* Claims about DatabasePool.get_connection (SpecPool).                    *)
(***************************************************************************)
\* the with-block of request p ends in this step
Leaves(p) == txn[p].pc \notin {"idle", "done"} /\ txn'[p].pc = "done"
\* every statement of p's body has run
BodyFinished(p) ==
    \/ txn[p].pc = "select"
    \/ txn[p].pc = "insert" /\ Cardinality(txn[p].inserted) = Len(txn[p].schedule)
Tables == <<users, devices, device_schedules, telemetry>>

\* C30: the writes of a request are committed exactly when the body of its
\* with-block finishes without an exception, and none of them persists when it
\* raises (a 404, or a failure half-way through create_device or
\* set_device_schedule); either way the connection goes back to the pool
\* exactly once, so that no connection is checked out once every request has
\* completed.
C30_CommitOrRollback ==
    [][/\ \A p \in Procs :
             Leaves(p) =>
                /\ txn[p].conn /\ ~txn'[p].conn /\ txn'[p].putconns = 1
                /\ resp'.status = 200 <=> BodyFinished(p)
                /\ IF BodyFinished(p)
                   THEN /\ \A r \in txn[p].inserted : r \in device_schedules'
                        /\ \A r \in device_schedules :
                              r \in device_schedules' <=> r.id \notin txn[p].deleted
                        /\ UNCHANGED <<users, devices, telemetry>>
                   ELSE UNCHANGED Tables
       /\ (resp'.op = "create_device" /\ txn' = txn) =>
             IF resp'.status = 201
             THEN /\ resp'.id \in DOMAIN devices' \ DOMAIN devices
                  /\ telemetry' = Append(telemetry, [timestamp |-> now,
                                                     device_id |-> resp'.id,
                                                     energy_usage |-> 0])
             ELSE UNCHANGED Tables
       /\ \A p \in Procs :
             /\ txn'[p].putconns <= 1
             /\ txn'[p].pc \in {"idle", "done"} => ~txn'[p].conn
             /\ txn'[p].conn => txn'[p].putconns = 0]_vars

\* C30 witness: one set_device_schedule request was rolled back after its DELETE
\* and another committed, both connections are back in the pool, and the stored
\* rows are those of the committed request
C30_Witness ==
    \E p \in Writers, q \in Writers :
        /\ txn[p].pc = "done" /\ txn[p].deleted # {} /\ txn[p].inserted = {}
        /\ Len(txn[p].schedule) = 1
        /\ txn[q].pc = "done" /\ txn[q].inserted # {}
        /\ txn[p].device_id = "d1" /\ txn[q].device_id = "d1"
        /\ \A x \in Procs : ~txn[x].conn
        /\ txn[p].putconns = 1 /\ txn[q].putconns = 1
        /\ SchedulesOf(device_schedules, "d1") = txn[q].inserted
====
